---- MODULE Spec2Model ----
(***************************************************************************)
(* Model of the registry hive navigator and its transaction-log replay     *)
(* layer (src/src/transaction_log.rs, src/src/hive.rs, src/src/header.rs,  *)
(* src/src/utils.rs, src/src/key.rs, src/src/subkey_list.rs,               *)
(* src/src/value.rs, src/src/bigdata.rs, src/src/cell.rs, src/src/hbin.rs).*)
(*                                                                         *)
(* Number representation.  TLC integers are 32-bit signed, so an octet is  *)
(* modelled with 7 bits (0..127) and a u32 with four such octets (28       *)
(* bits).  Sizes are scaled down so that an image can reach them.  The     *)
(* base block is 64 octets instead of 4096: its fields from the signature  *)
(* (0x00) to the clustering factor (0x2C) and the file name (0x30) keep    *)
(* the offsets of the source, the file name is 12 octets instead of 128,   *)
(* and the checksum is the last word of the block (0x3C for 0x1FC), so it  *)
(* covers every word in front of it (15 for 127) as in the source.  The    *)
(* first bin starts right behind the base block.  Offsets inside cells     *)
(* are the literal offsets of the source.  The replay limits               *)
(* MAX_HIVE_SIZE and MAX_PAGE_EXTENSION are a few octets above the size    *)
(* of a small hive, and the largest value stored in a single cell         *)
(* (MAX_DIRECT_DATA_SIZE) is 8 octets instead of 16344.  A transaction     *)
(* log has pages of 32 octets instead of 4096 (PAGE_SIZE), is probed in    *)
(* steps of 16 octets instead of 512, and its limits on the entries of a   *)
(* dirty vector, on the dirty pages of a log and on the payload of a page  *)
(* are 2, 3 and 8 instead of 1000, 10000 and 16 pages.                     *)
(***************************************************************************)
EXTENDS Integers, Sequences, FiniteSets, TLC

\* ------------------------------------------------------------------------
\* Bounds of the model
\* ------------------------------------------------------------------------
MaxPages == 2
MaxCalls == 2
MaxHiveCalls == 3
MaxThreads == 2
MaxGetKeyCalls == 2
MaxDepth == 4
MaxNext == 4
MaxBins == 3
MaxCells == 3
MaxLogPages == 3

\* ------------------------------------------------------------------------
\* Machine integers
\* ------------------------------------------------------------------------
OctetMod == 2^7
U32_MOD == OctetMod * OctetMod * OctetMod * OctetMod
U32_MAX == U32_MOD - 1
\* usize::MAX of a build whose usize is wider than u32: no sum of two u32
\* values reaches it.
USIZE_WIDE_MAX == 2 * U32_MAX + 1

Octet == 0 .. (OctetMod - 1)

Ok(v) == [ok |-> TRUE, val |-> v]
Err(e) == [ok |-> FALSE, err |-> e]

InvalidFormat(check, page_idx) ==
    [kind |-> "InvalidFormat", check |-> check, page_idx |-> page_idx]

Some(v) == [some |-> TRUE, val |-> v]
None == [some |-> FALSE]

Max(a, b) == IF a >= b THEN a ELSE b

\* usize::checked_add
checked_add(a, b, usize_max_) ==
    IF a + b > usize_max_ THEN None ELSE Some(a + b)

\* ------------------------------------------------------------------------
\* Transaction log application (transaction_log.rs)
\* ------------------------------------------------------------------------
BASE_BLOCK_SIZE == 64
MAX_HIVE_SIZE == 192
MAX_PAGE_EXTENSION == 2

\* Vec::resize(new_len, 0) when new_len > len
resize(data, new_len, fill) ==
    data \o [i \in 1 .. (new_len - Len(data)) |-> fill]

copy_from_slice_at_zero(data, start, end, src) ==
    [i \in 1 .. Len(data) |-> IF i <= Len(src) THEN src[i] ELSE data[i]]

copy_from_slice_appending(data, start, end, src) == data \o src

\* hive_data[start..end].copy_from_slice(src)
copy_from_slice(data, start, end, src) ==
    [i \in 1 .. Len(data) |->
        IF start < i /\ i <= end THEN src[i - start] ELSE data[i]]

exceeds_max_hive_size_off_by_one(end) == end >= MAX_HIVE_SIZE

\* if end > MAX_HIVE_SIZE
exceeds_max_hive_size(end) == end > MAX_HIVE_SIZE

extension_too_large_off_by_one(end, len) == (end - len) >= MAX_PAGE_EXTENSION

\* extension = end - hive_data.len(); if extension > MAX_PAGE_EXTENSION
extension_too_large(end, len) == (end - len) > MAX_PAGE_EXTENSION

data_size_mismatch_shorter_only(page) == Len(page.data) < page.size

\* if page.data.len() != page.size as usize
data_size_mismatch(page) == Len(page.data) # page.size

\* The loop of apply_to_hive from page page_idx (1-based here, the error
\* carries the 0-based index of the source) with `applied` pages done.
RECURSIVE apply_pages(_, _, _, _, _)
apply_pages(hive_data_, pages, page_idx, applied, usize_max_) ==
    IF page_idx > Len(pages)
    THEN [hive_data |-> hive_data_, result |-> Ok(applied)]
    ELSE
      LET page == pages[page_idx]
          start == page.offset
          end_opt == checked_add(start, page.size, usize_max_)
      IN
      IF ~end_opt.some
      THEN [hive_data |-> hive_data_,
            result |-> Err(InvalidFormat("offset overflow", page_idx - 1))]
      ELSE
        LET end == end_opt.val IN
        IF exceeds_max_hive_size(end)
        THEN [hive_data |-> hive_data_,
              result |-> Err(InvalidFormat("beyond maximum size", page_idx - 1))]
        ELSE IF end > Len(hive_data_) /\ extension_too_large(end, Len(hive_data_))
        THEN [hive_data |-> hive_data_,
              result |-> Err(InvalidFormat("extend by too much", page_idx - 1))]
        ELSE
          LET resized == IF end > Len(hive_data_)
                         THEN resize(hive_data_, end, 0)
                         ELSE hive_data_
          IN
          IF data_size_mismatch(page)
          THEN [hive_data |-> resized,
                result |-> Err(InvalidFormat("data size mismatch", page_idx - 1))]
          ELSE apply_pages(copy_from_slice(resized, start, end, page.data),
                           pages, page_idx + 1, applied + 1, usize_max_)

\* The replay with the buffer put back as it was when a page is refused.
apply_to_hive_rolling_back(log_, hive_data_, usize_max_) ==
    LET r == apply_pages(hive_data_, log_.dirty_pages, 1, 0, usize_max_) IN
    IF r.result.ok THEN r ELSE [hive_data |-> hive_data_, result |-> r.result]

\* TransactionLog::apply_to_hive(&self, hive_data: &mut Vec<u8>)
apply_to_hive(log_, hive_data_, usize_max_) ==
    apply_pages(hive_data_, log_.dirty_pages, 1, 0, usize_max_)

\* Position at which a stable sort places log x among the already sorted
\* logs: after every log whose key is not greater.
RECURSIVE insert_by_sequence(_, _)
insert_by_sequence(sorted, x) ==
    IF sorted = << >> THEN << x >>
    ELSE IF sorted[Len(sorted)].sequence <= x.sequence
         THEN Append(sorted, x)
         ELSE Append(insert_by_sequence(SubSeq(sorted, 1, Len(sorted) - 1), x),
                     sorted[Len(sorted)])

RECURSIVE sort_by_key_sequence(_)
sort_by_key_sequence(logs) ==
    IF logs = << >> THEN << >>
    ELSE insert_by_sequence(
             sort_by_key_sequence(SubSeq(logs, 1, Len(logs) - 1)),
             logs[Len(logs)])

sorted_logs_argument_order(logs) == logs

\* let mut sorted_logs: Vec<_> = logs.iter().collect();
\* sorted_logs.sort_by_key(|log| log.sequence);
sorted_logs(logs) == sort_by_key_sequence(logs)

\* for log in sorted_logs { total_applied += log.apply_to_hive(hive_data)?; }
RECURSIVE apply_each(_, _, _, _, _)
apply_each(hive_data_, sorted, i, total_applied, usize_max_) ==
    IF i > Len(sorted)
    THEN [hive_data |-> hive_data_, result |-> Ok(total_applied)]
    ELSE LET r == apply_to_hive(sorted[i], hive_data_, usize_max_) IN
         IF ~r.result.ok THEN r
         ELSE apply_each(r.hive_data, sorted, i + 1,
                         total_applied + r.result.val, usize_max_)

\* apply_transaction_logs(hive_data: &mut Vec<u8>, logs: &[TransactionLog])
apply_transaction_logs(hive_data_, logs, usize_max_) ==
    apply_each(hive_data_, sorted_logs(logs), 1, 0, usize_max_)

\* TransactionLog::open(path): the file system maps a path to what opening
\* and parsing the file there yields, Ok(log) or an error.
TransactionLog_open(files_, path) == files_[path]

\* if let Some(path) = logN_path { match TransactionLog::open(path) {
\*     Ok(log) => logs.push(log), Err(_) => {} } }
push_if_opened(logs, files_, path_opt) ==
    IF ~path_opt.some THEN logs
    ELSE LET r == TransactionLog_open(files_, path_opt.val) IN
         IF r.ok THEN Append(logs, r.val) ELSE logs

merge_transaction_logs_needs_log1(hive_data_, log1_path, log2_path, files_, usize_max_) ==
    LET logs == IF log1_path.some /\ ~TransactionLog_open(files_, log1_path.val).ok
                THEN << >>
                ELSE push_if_opened(push_if_opened(<< >>, files_, log1_path),
                                    files_, log2_path)
    IN IF logs = << >>
       THEN [hive_data |-> hive_data_, result |-> Ok(0)]
       ELSE apply_transaction_logs(hive_data_, logs, usize_max_)

\* merge_transaction_logs(hive_data, log1_path, log2_path)
merge_transaction_logs(hive_data_, log1_path, log2_path, files_, usize_max_) ==
    LET logs == push_if_opened(push_if_opened(<< >>, files_, log1_path),
                               files_, log2_path)
    IN IF logs = << >>
       THEN [hive_data |-> hive_data_, result |-> Ok(0)]
       ELSE apply_transaction_logs(hive_data_, logs, usize_max_)

\* ------------------------------------------------------------------------
\* Primitive decoders (utils.rs)
\* ------------------------------------------------------------------------
HBIN_START_OFFSET == 64

TruncatedData(offset, expected, actual) ==
    [kind |-> "TruncatedData", offset |-> offset, expected |-> expected,
     actual |-> actual]

saturating_sub(a, b) == IF a >= b THEN a - b ELSE 0

\* read_u32_le(data, offset)
read_u32_le(data, offset) ==
    IF offset + 4 > Len(data)
    THEN Err(TruncatedData(offset, 4, saturating_sub(Len(data), offset)))
    ELSE Ok(data[offset + 1]
            + OctetMod * data[offset + 2]
            + OctetMod * OctetMod * data[offset + 3]
            + OctetMod * OctetMod * OctetMod * data[offset + 4])

\* read_u16_le(data, offset)
read_u16_le(data, offset) ==
    IF offset + 2 > Len(data)
    THEN Err(TruncatedData(offset, 2, saturating_sub(Len(data), offset)))
    ELSE Ok(data[offset + 1] + OctetMod * data[offset + 2])

\* u32::to_le_bytes
to_le_bytes(v) ==
    << v % OctetMod,
       (v \div OctetMod) % OctetMod,
       (v \div (OctetMod * OctetMod)) % OctetMod,
       (v \div (OctetMod * OctetMod * OctetMod)) % OctetMod >>

\* i32::from_le_bytes: two's complement over the width of a u32
i32_from_le_bytes(b) ==
    LET v == b[1] + OctetMod * b[2] + OctetMod * OctetMod * b[3]
             + OctetMod * OctetMod * OctetMod * b[4]
    IN IF v >= U32_MOD \div 2 THEN v - U32_MOD ELSE v

\* `size as u32` in place of the magnitude
unsigned_abs_as_cast(v) == IF v < 0 THEN v + U32_MOD ELSE v

\* i32::unsigned_abs
unsigned_abs(v) == IF v < 0 THEN 0 - v ELSE v

\* checksum ^= dword
RECURSIVE xor(_, _)
xor(a, b) ==
    IF a = 0 THEN b
    ELSE IF b = 0 THEN a
    ELSE (((a % 2) + (b % 2)) % 2) + 2 * xor(a \div 2, b \div 2)

\* Offset of the checksum field (0x1FC in the source)
CHECKSUM_OFFSET == 60

\* for i in (0..0x1FC).step_by(4) { if i + 4 <= data.len() { if let
\* Ok(dword) = read_u32_le(data, i) { checksum ^= dword } } }: what the
\* steps i = 4 * first, ..., 4 * (first + count - 1) of the loop XOR into
\* `checksum`.  XOR is associative, the steps are grouped in halves.
RECURSIVE checksum_steps(_, _, _)
checksum_steps(data, first, count) ==
    IF count = 0 THEN 0
    ELSE IF count = 1
    THEN LET i == 4 * first
             r == read_u32_le(data, i)
         IN IF i + 4 <= Len(data) /\ r.ok THEN r.val ELSE 0
    ELSE LET half == count \div 2 IN
         xor(checksum_steps(data, first, half),
             checksum_steps(data, first + half, count - half))

\* calculate_checksum(data)
calculate_checksum(data) == checksum_steps(data, 0, CHECKSUM_OFFSET \div 4)

\* cell_offset_to_absolute(cell_offset): u32::checked_add
cell_offset_to_absolute(cell_offset) ==
    IF cell_offset + HBIN_START_OFFSET > U32_MAX
    THEN Err([kind |-> "InvalidOffset", offset |-> cell_offset, hive_size |-> 0])
    ELSE Ok(cell_offset + HBIN_START_OFFSET)

\* str::trim_end_matches('\0') on a string given as its code points
RECURSIVE trim_end_nul(_)
trim_end_nul(str) ==
    IF str # << >> /\ str[Len(str)] = 0
    THEN trim_end_nul(SubSeq(str, 1, Len(str) - 1))
    ELSE str

\* read_ascii_string(data): every octet of the model is ASCII, so the
\* lossy UTF-8 conversion keeps each octet as one character.
read_ascii_string(data) == trim_end_nul(data)

\* read_utf16_string(data, offset): little-endian code units; no code unit
\* of the model is a surrogate, so decoding reports no error.
read_utf16_string(data, offset) ==
    IF data = << >> THEN Ok(<< >>)
    ELSE IF Len(data) % 2 # 0
    THEN Err([kind |-> "InvalidUtf16", offset |-> offset])
    ELSE Ok(trim_end_nul([i \in 1 .. (Len(data) \div 2) |->
                             data[2 * i - 1] + OctetMod * data[2 * i]]))

WhiteSpace == {9, 10, 11, 12, 13, 32}

RECURSIVE trim_start(_)
trim_start(str) ==
    IF str # << >> /\ str[1] \in WhiteSpace
    THEN trim_start(SubSeq(str, 2, Len(str)))
    ELSE str

RECURSIVE trim_end(_)
trim_end(str) ==
    IF str # << >> /\ str[Len(str)] \in WhiteSpace
    THEN trim_end(SubSeq(str, 1, Len(str) - 1))
    ELSE str

\* read_fixed_ascii(data, len)
read_fixed_ascii(data, len) ==
    LET n == IF Len(data) < len THEN Len(data) ELSE len
        chars == [i \in 1 .. n |-> IF data[i] = 0 THEN 32 ELSE data[i]]
    IN trim_end(trim_start(chars))

\* ------------------------------------------------------------------------
\* Base block (header.rs)
\* ------------------------------------------------------------------------
\* The file name field: data[0x30..0xB0] of the source, 12 octets here.
FILE_NAME_OFFSET == 48
FILE_NAME_LENGTH == 12

\* b"regf"
REGF_SIGNATURE == << 114, 101, 103, 102 >>

checksum_matches_unverified(checksum, calculated) == TRUE

\* if checksum != calculated { return Err(ChecksumMismatch) }
checksum_matches(checksum, calculated) == checksum = calculated

\* BaseBlock::parse(data)
BaseBlock_parse(data) ==
    IF Len(data) < BASE_BLOCK_SIZE
    THEN Err([kind |-> "HiveTooSmall", size |-> Len(data),
              minimum |-> BASE_BLOCK_SIZE])
    ELSE
      LET signature == SubSeq(data, 1, 4) IN
      IF signature # REGF_SIGNATURE
      THEN Err([kind |-> "InvalidSignature", expected |-> REGF_SIGNATURE,
                found |-> signature])
      ELSE
        LET major_version == read_u32_le(data, 20).val
            minor_version == read_u32_le(data, 24).val
            checksum == read_u32_le(data, CHECKSUM_OFFSET).val
            calculated == calculate_checksum(data)
        IN
        IF ~checksum_matches(checksum, calculated)
        THEN Err([kind |-> "ChecksumMismatch", expected |-> checksum,
                  calculated |-> calculated])
        ELSE IF major_version # 1 \/ minor_version < 3 \/ minor_version > 6
        THEN Err([kind |-> "UnsupportedVersion", major |-> major_version,
                  minor |-> minor_version])
        ELSE Ok([signature |-> signature,
                 primary_sequence |-> read_u32_le(data, 4).val,
                 secondary_sequence |-> read_u32_le(data, 8).val,
                 last_written |-> [lo |-> read_u32_le(data, 12).val,
                                   hi |-> read_u32_le(data, 16).val],
                 major_version |-> major_version,
                 minor_version |-> minor_version,
                 file_type |-> read_u32_le(data, 28).val,
                 file_format |-> read_u32_le(data, 32).val,
                 root_cell_offset |-> read_u32_le(data, 36).val,
                 hive_length |-> read_u32_le(data, 40).val,
                 clustering_factor |-> read_u32_le(data, 44).val,
                 file_name |-> read_fixed_ascii(
                                   SubSeq(data, FILE_NAME_OFFSET + 1,
                                          FILE_NAME_OFFSET + FILE_NAME_LENGTH),
                                   FILE_NAME_LENGTH \div 2),
                 checksum |-> checksum])

\* ------------------------------------------------------------------------
\* Key node (key.rs) and cell access (hive.rs)
\* ------------------------------------------------------------------------
KEY_NODE_MIN_SIZE == 76
KEY_NAME_OFFSET == 76

\* KeyNodeFlags::COMP_NAME = 0x0020; (self.0 & flag) != 0
is_compressed(flags) == (flags \div 32) % 2 = 1

\* KeyNode::parse(data, offset)
KeyNode_parse(data, offset) ==
    IF Len(data) < KEY_NODE_MIN_SIZE
    THEN Err(TruncatedData(offset, KEY_NODE_MIN_SIZE, Len(data)))
    ELSE IF SubSeq(data, 1, 2) # << 110, 107 >>
    THEN Err(InvalidFormat("Expected 'nk' signature", offset))
    ELSE
      LET flags == read_u16_le(data, 2).val
          name_length == read_u16_le(data, 72).val
          name_end == KEY_NAME_OFFSET + name_length
          name_data == SubSeq(data, KEY_NAME_OFFSET + 1, name_end)
          name == IF name_length > 0
                  THEN IF is_compressed(flags)
                       THEN Ok(read_ascii_string(name_data))
                       ELSE read_utf16_string(name_data, offset)
                  ELSE Ok(<< >>)
      IN
      IF name_length > 0 /\ name_end > Len(data)
      THEN Err(TruncatedData(offset, name_end, Len(data)))
      ELSE IF ~name.ok THEN name
      ELSE Ok([flags |-> flags,
               last_written |-> [lo |-> read_u32_le(data, 4).val,
                                 hi |-> read_u32_le(data, 8).val],
               access_bits |-> read_u32_le(data, 12).val,
               parent_offset |-> read_u32_le(data, 16).val,
               subkey_count |-> read_u32_le(data, 20).val,
               volatile_subkey_count |-> read_u32_le(data, 24).val,
               subkey_list_offset |-> read_u32_le(data, 28).val,
               volatile_subkey_list_offset |-> read_u32_le(data, 32).val,
               value_count |-> read_u32_le(data, 36).val,
               value_list_offset |-> read_u32_le(data, 40).val,
               security_offset |-> read_u32_le(data, 44).val,
               class_name_offset |-> read_u32_le(data, 48).val,
               max_subkey_name_len |-> read_u32_le(data, 52).val,
               max_subkey_class_len |-> read_u32_le(data, 56).val,
               max_value_name_len |-> read_u32_le(data, 60).val,
               max_value_data_len |-> read_u32_le(data, 64).val,
               work_var |-> read_u32_le(data, 68).val,
               name_length |-> name_length,
               class_name_length |-> read_u16_le(data, 74).val,
               name |-> name.val])

\* Hive::read_cell(offset) on the image `data`
read_cell(data, offset) ==
    LET abs == cell_offset_to_absolute(offset) IN
    IF ~abs.ok THEN abs
    ELSE
      LET abs_offset == abs.val IN
      IF abs_offset >= Len(data)
      THEN Err([kind |-> "InvalidOffset", offset |-> offset,
                hive_size |-> Len(data)])
      ELSE IF abs_offset + 4 > Len(data)
      THEN Err(TruncatedData(offset, 4, Len(data) - abs_offset))
      ELSE
        LET size == i32_from_le_bytes(SubSeq(data, abs_offset + 1, abs_offset + 4))
            abs_size == unsigned_abs(size)
            data_start == abs_offset + 4
            data_end == abs_offset + abs_size
        IN
        IF abs_size < 4
        THEN Err([kind |-> "InvalidCellSize", size |-> size, offset |-> offset])
        ELSE IF data_end > Len(data)
        THEN Err(TruncatedData(offset, abs_size, Len(data) - abs_offset))
        ELSE Ok(SubSeq(data, data_start + 1, data_end))

\* Hive::parse_key_node(offset): let cell_data = self.read_cell(offset)?;
\* KeyNode::parse(cell_data, offset).  The slice is bound once.
parse_key_node(data, offset) ==
    CHOOSE key_node \in
        {IF ~cell_data.ok THEN cell_data ELSE KeyNode_parse(cell_data.val, offset) :
            cell_data \in {read_cell(data, offset)}} : TRUE

\* ------------------------------------------------------------------------
\* Hive navigator (hive.rs)
\* ------------------------------------------------------------------------
\* HashMap::new()
EmptyCache == [o \in {} |-> 0]

IoError == [kind |-> "Io"]

\* Hive::from_data(data): the navigator owns the image in the given
\* storage form and starts with an empty key cache.
from_data(data, storage) ==
    LET base_block == BaseBlock_parse(data) IN
    IF ~base_block.ok THEN base_block
    ELSE Ok([data |-> data, storage |-> storage,
             base_block |-> base_block.val, key_cache |-> EmptyCache])

\* Hive::from_vec(data)
from_vec(data) == from_data(data, "Owned")

\* Hive::open(path)
open(files_, path) ==
    IF ~files_[path].some THEN Err(IoError)
    ELSE IF Len(files_[path].val) < BASE_BLOCK_SIZE
    THEN Err([kind |-> "HiveTooSmall", size |-> Len(files_[path].val),
              minimum |-> BASE_BLOCK_SIZE])
    ELSE from_data(files_[path].val, "Mapped")

update_checksum_skipped(data) == Ok(data)

\* Hive::update_checksum(data)
update_checksum(data) ==
    IF Len(data) < BASE_BLOCK_SIZE
    THEN Err([kind |-> "HiveTooSmall", size |-> Len(data),
              minimum |-> BASE_BLOCK_SIZE])
    ELSE Ok(copy_from_slice(data, CHECKSUM_OFFSET, CHECKSUM_OFFSET + 4,
                            to_le_bytes(calculate_checksum(data))))

\* The checksum written anew whether or not a page was applied.
open_with_logs_always_updating(files_, log_files_, hive_path, log1_path, log2_path, usize_max_) ==
    IF ~files_[hive_path].some THEN Err(IoError)
    ELSE
      LET merged == merge_transaction_logs(files_[hive_path].val, log1_path,
                                           log2_path, log_files_, usize_max_)
      IN
      IF ~merged.result.ok THEN merged.result
      ELSE LET updated == update_checksum(merged.hive_data) IN
           IF ~updated.ok THEN updated ELSE from_vec(updated.val)

\* Hive::open_with_logs(hive_path, log1_path, log2_path)
open_with_logs(files_, log_files_, hive_path, log1_path, log2_path, usize_max_) ==
    IF ~files_[hive_path].some THEN Err(IoError)
    ELSE
      LET merged == merge_transaction_logs(files_[hive_path].val, log1_path,
                                           log2_path, log_files_, usize_max_)
      IN
      IF ~merged.result.ok THEN merged.result
      ELSE IF merged.result.val > 0
      THEN LET updated == update_checksum(merged.hive_data) IN
           IF ~updated.ok THEN updated ELSE from_vec(updated.val)
      ELSE from_vec(merged.hive_data)

apply_transaction_log_in_place(hive, log_files_, log_path, usize_max_) ==
    LET opened == TransactionLog_open(log_files_, log_path)
        applied == apply_to_hive(opened.val, hive.data, usize_max_)
        updated == update_checksum(applied.hive_data)
    IN
    IF ~opened.ok THEN [self |-> hive, result |-> opened]
    ELSE IF ~applied.result.ok
    THEN [self |-> [hive EXCEPT !.data = applied.hive_data],
          result |-> applied.result]
    ELSE IF ~updated.ok
    THEN [self |-> [hive EXCEPT !.data = applied.hive_data], result |-> updated]
    ELSE [self |-> [hive EXCEPT !.data = updated.val],
          result |-> from_vec(updated.val)]

\* The new navigator taking over the key cache of the receiver.
apply_transaction_log_keeping_cache(hive, log_files_, log_path, usize_max_) ==
    LET hive_data_ == hive.data
        opened == TransactionLog_open(log_files_, log_path)
        applied == apply_to_hive(opened.val, hive_data_, usize_max_)
        updated == update_checksum(applied.hive_data)
        published == from_vec(updated.val)
    IN
    IF ~opened.ok THEN [self |-> hive, result |-> opened]
    ELSE IF ~applied.result.ok THEN [self |-> hive, result |-> applied.result]
    ELSE IF ~updated.ok THEN [self |-> hive, result |-> updated]
    ELSE IF ~published.ok THEN [self |-> hive, result |-> published]
    ELSE [self |-> hive,
          result |-> Ok([published.val EXCEPT !.key_cache = hive.key_cache])]

\* Hive::apply_transaction_log(&self, log_path): `self` is the receiver
\* after the call, `result` the returned Result<Hive>.
apply_transaction_log(hive, log_files_, log_path, usize_max_) ==
    LET hive_data_ == hive.data
        opened == TransactionLog_open(log_files_, log_path)
        applied == apply_to_hive(opened.val, hive_data_, usize_max_)
        updated == update_checksum(applied.hive_data)
    IN
    IF ~opened.ok THEN [self |-> hive, result |-> opened]
    ELSE IF ~applied.result.ok THEN [self |-> hive, result |-> applied.result]
    ELSE IF ~updated.ok THEN [self |-> hive, result |-> updated]
    ELSE [self |-> hive, result |-> from_vec(updated.val)]

save_without_checksum(hive, files_, output_path, io) ==
    IF io = "create fails"
    THEN [self |-> hive, files |-> files_, result |-> Err(IoError)]
    ELSE IF io = "write fails"
    THEN [self |-> hive,
          files |-> [files_ EXCEPT ![output_path] = Some(<< >>)],
          result |-> Err(IoError)]
    ELSE [self |-> hive,
          files |-> [files_ EXCEPT ![output_path] =
                        Some(SubSeq(hive.data, 1, CHECKSUM_OFFSET)
                             \o << 0, 0, 0, 0 >>
                             \o SubSeq(hive.data, CHECKSUM_OFFSET + 5,
                                       Len(hive.data)))],
          result |-> Ok(TRUE)]

\* Hive::save(&self, output_path).  io is what the file system does:
\* File::create fails, write_all fails after the file was created (and
\* truncated), or everything is written.
save(hive, files_, output_path, io) ==
    LET updated == update_checksum(hive.data) IN
    IF ~updated.ok
    THEN [self |-> hive, files |-> files_, result |-> updated]
    ELSE IF io = "create fails"
    THEN [self |-> hive, files |-> files_, result |-> Err(IoError)]
    ELSE IF io = "write fails"
    THEN [self |-> hive,
          files |-> [files_ EXCEPT ![output_path] = Some(<< >>)],
          result |-> Err(IoError)]
    ELSE [self |-> hive,
          files |-> [files_ EXCEPT ![output_path] = Some(updated.val)],
          result |-> Ok(TRUE)]

\* The handle get_key returns: the cell offset and a clone of the node.
RegistryKey(offset, key_node) == [offset |-> offset, key_node |-> key_node]

HashMap_get_any(key_cache, offset) ==
    IF DOMAIN key_cache = {} THEN None
    ELSE Some(key_cache[CHOOSE o \in DOMAIN key_cache : TRUE])

\* key_cache.get(&offset)
HashMap_get(key_cache, offset) ==
    IF offset \in DOMAIN key_cache THEN Some(key_cache[offset]) ELSE None

\* key_cache.insert(offset, key_node.clone()): an entry already present
\* for the offset is replaced.
HashMap_insert(key_cache, offset, key_node) ==
    [o \in DOMAIN key_cache \cup {offset} |->
        IF o = offset THEN key_node ELSE key_cache[o]]

\* Hive::get_key(&self, offset) run by one thread without interference:
\* `self` is the navigator after the call (its cache may have grown).
get_key(hive, offset) ==
    LET cached == HashMap_get(hive.key_cache, offset) IN
    IF cached.some
    THEN [self |-> hive, result |-> Ok(RegistryKey(offset, cached.val))]
    ELSE
      LET key_node == parse_key_node(hive.data, offset) IN
      IF ~key_node.ok THEN [self |-> hive, result |-> key_node]
      ELSE [self |-> [hive EXCEPT !.key_cache =
                                      HashMap_insert(@, offset, key_node.val)],
            result |-> Ok(RegistryKey(offset, key_node.val))]

readers_after_probe_guard_kept(readers, t) == readers

\* The read guard is a temporary of the `if let` statement: it is dropped
\* when the statement ends, on a hit by the return inside its body and on
\* a miss before parse_key_node is called.
readers_after_probe(readers, t) == readers \ {t}

\* ------------------------------------------------------------------------
\* State
\* ------------------------------------------------------------------------
VARIABLES
    usize_max,   \* usize::MAX of the build
    hive_data,   \* the caller's Vec<u8> handed to the replay functions
    log,         \* the TransactionLog value replayed by apply_to_hive
    files,       \* file system: path of a hive file -> its octets, if any
    log_files,   \* file system: path of a log -> what TransactionLog::open yields
    hives,       \* the navigators published to callers
    threads,     \* the threads inside get_key: position, offset, locals
    key_cache_lock, \* the RwLock of the key cache: who holds it
    history,     \* the calls made: name, arguments, buffers, result
    call,        \* the traversal in progress: its frames and what it collected
    iter         \* the iterator a caller holds: its fields

vars == << usize_max, hive_data, log, files, log_files, hives, threads,
           key_cache_lock, history, call, iter >>

\* ------------------------------------------------------------------------
\* Inputs of the replay specifications
\* ------------------------------------------------------------------------
\* Caller buffers: non-zero, position dependent octets.
BufferOfLen(n) == [i \in 1 .. n |-> ((i - 1) % 5) + 1]
BufferLens == {0, 2, MAX_HIVE_SIZE - 1}
Buffers == {BufferOfLen(n) : n \in BufferLens}

PageOffsets == {0, 1, 3, MAX_HIVE_SIZE - 1, U32_MAX}
PageSizes == {0, 1, 2}
PageDatas == {<< >>, << 17 >>, << 34, 51 >>}
\* Pages whose payload has the declared size, and at offset 1 also pages
\* whose payload has not.
Pages ==
    {p \in [offset : PageOffsets, size : PageSizes, data : PageDatas] :
        \/ Len(p.data) = p.size /\ (p.size > 0 \/ p.offset = 3)
        \/ Len(p.data) # p.size /\ p.offset = 1 /\ p.size > 0 /\ p.data # << >>}

RECURSIVE SeqsUpTo(_, _)
SeqsUpTo(S, n) ==
    IF n = 0 THEN {<< >>}
    ELSE LET shorter == SeqsUpTo(S, n - 1) IN
         shorter \cup {Append(q, x) : q \in {r \in shorter : Len(r) = n - 1}, x \in S}

LogSequences == {10, 11}
Logs == [sequence : {10}, dirty_pages : SeqsUpTo(Pages, MaxPages)]

UsizeMaxima == {U32_MAX, USIZE_WIDE_MAX}

NoLog == [sequence |-> 0, dirty_pages |-> << >>]
NoFiles == << >>
NoHives == << >>
NoThreads == << >>
NoCall == [pc |-> "none"]
NoIter == [kind |-> "none"]
Unlocked == [readers |-> {}, writer |-> None]

Call(name, args, before, r) ==
    [name |-> name, args |-> args, before |-> before,
     after |-> r.hive_data, result |-> r.result]

\* ------------------------------------------------------------------------
\* SpecApply: one log replayed onto one buffer, repeatedly
\* ------------------------------------------------------------------------
InitApply ==
    /\ call = NoCall
    /\ iter = NoIter
    /\ usize_max \in UsizeMaxima
    /\ hive_data \in Buffers
    /\ log \in Logs
    /\ files = NoFiles
    /\ log_files = NoFiles
    /\ hives = NoHives
    /\ threads = NoThreads
    /\ key_cache_lock = Unlocked
    /\ history = << >>

\* log.apply_to_hive(&mut hive_data)
ApplyToHive ==
    /\ Len(history) < MaxCalls
    /\ LET r == apply_to_hive(log, hive_data, usize_max) IN
       /\ hive_data' = r.hive_data
       /\ history' = Append(history, Call("apply_to_hive", << >>, hive_data, r))
    /\ UNCHANGED << call, iter, usize_max, log, files, log_files, hives, threads,
                    key_cache_lock >>

NextApply == ApplyToHive

SpecApply == InitApply /\ [][NextApply]_vars

\* ------------------------------------------------------------------------
\* Properties of apply_to_hive (SpecApply)
\* ------------------------------------------------------------------------
ApplyCalls == {n \in 1 .. Len(history) : history[n].name = "apply_to_hive"}

PageEnd(p) == p.offset + p.size
EndOverflows(p) == PageEnd(p) > usize_max
EndRejected(p) == EndOverflows(p) \/ PageEnd(p) > MAX_HIVE_SIZE

MaxOf(S) == CHOOSE x \in S : \A y \in S : y <= x

\* Length of image I once the first m pages have been processed.
LenAfter(I, pages, m) == MaxOf({Len(I)} \cup {PageEnd(pages[k]) : k \in 1 .. m})

\* The pages among the first m that cover octet i (0-based).
Covering(pages, m, i) ==
    {k \in 1 .. m : pages[k].offset <= i /\ i < PageEnd(pages[k])}

ExpectedOctet(I, pages, m, i) ==
    LET cov == Covering(pages, m, i) IN
    IF cov # {}
    THEN LET k == MaxOf(cov) IN pages[k].data[i - pages[k].offset + 1]
    ELSE IF i < Len(I) THEN I[i + 1] ELSE 0

\* J is I with the first m pages written over it, the last writer winning.
IsReplayOf(J, I, pages, m) ==
    /\ Len(J) = LenAfter(I, pages, m)
    /\ \A i \in 0 .. (Len(J) - 1) : J[i + 1] = ExpectedOctet(I, pages, m, i)

\* Number of pages a call wrote completely.
PagesApplied(h) ==
    IF h.result.ok THEN Len(log.dirty_pages) ELSE h.result.err.page_idx

\* C2: a successful apply_to_hive leaves an image of length max(len(I),
\* largest page end) in which every covered octet holds the payload octet
\* of the last covering page, every uncovered octet below len(I) is
\* unchanged and every uncovered octet beyond it is zero; it returns the
\* number of pages.
C2_ApplyPostcondition ==
    \A n \in ApplyCalls :
        LET h == history[n] IN
        h.result.ok =>
            /\ IsReplayOf(h.after, h.before, log.dirty_pages, Len(log.dirty_pages))
            /\ h.result.val = Len(log.dirty_pages)

C2_Witness ==
    \E n \in ApplyCalls :
        LET h == history[n]
            pages == log.dirty_pages
        IN /\ h.result.ok
           /\ Len(pages) = 2
           /\ Len(h.after) > Len(h.before)
           /\ \E i \in 0 .. (Len(h.after) - 1) : Cardinality(Covering(pages, 2, i)) = 2
           /\ \E i \in Len(h.before) .. (Len(h.after) - 1) : Covering(pages, 2, i) = {}
           /\ \E i \in 0 .. (Len(h.before) - 1) : Covering(pages, 2, i) = {}

\* C3: replaying a log that was applied successfully succeeds again and
\* leaves the image as the first replay left it.
C3_ReplayIdempotent ==
    \A n \in ApplyCalls :
        (n > 1 /\ (n - 1) \in ApplyCalls /\ history[n - 1].result.ok) =>
            /\ history[n].before = history[n - 1].after
            /\ history[n].result.ok
            /\ history[n].after = history[n - 1].after

C3_Witness ==
    /\ Len(history) >= 2
    /\ history[1].name = "apply_to_hive" /\ history[2].name = "apply_to_hive"
    /\ history[1].result.ok
    /\ Len(log.dirty_pages) = 2
    /\ Len(history[1].after) > Len(history[1].before)
    /\ \E i \in 0 .. (Len(history[1].after) - 1) :
           Cardinality(Covering(log.dirty_pages, 2, i)) = 2

EndChecks == {"offset overflow", "beyond maximum size"}

\* C9: a page whose end overflows or exceeds MAX_HIVE_SIZE is rejected with
\* InvalidFormat by the end checks, an end of exactly MAX_HIVE_SIZE is not,
\* and the image then holds the earlier pages only.
C9_EndRejected ==
    \A n \in ApplyCalls :
        LET h == history[n]
            pages == log.dirty_pages
            r == h.result
        IN
        /\ r.ok => \A k \in 1 .. Len(pages) : ~EndRejected(pages[k])
        /\ ~r.ok =>
             LET k == r.err.page_idx + 1 IN
             /\ k \in 1 .. Len(pages)
             /\ \A j \in 1 .. (k - 1) : ~EndRejected(pages[j])
             /\ EndRejected(pages[k]) =>
                  /\ r.err.kind = "InvalidFormat"
                  /\ r.err.check \in EndChecks
                  /\ IsReplayOf(h.after, h.before, pages, k - 1)
             /\ r.err.check \in EndChecks => EndRejected(pages[k])

C9_Witness ==
    \E n \in ApplyCalls :
        LET h == history[n]
            pages == log.dirty_pages
        IN /\ ~h.result.ok
           /\ h.result.err.page_idx = 1
           /\ h.result.err.check \in EndChecks
           /\ PageEnd(pages[1]) = MAX_HIVE_SIZE
           /\ Len(h.after) = MAX_HIVE_SIZE
           /\ Len(h.before) < MAX_HIVE_SIZE

\* C10: a page that ends beyond the current image is zero-extended to its
\* end exactly when end minus the current length is at most
\* MAX_PAGE_EXTENSION; otherwise it is rejected with InvalidFormat and the
\* image holds the earlier pages only.  The current length is the length
\* when the page is processed.
C10_ExtensionLimit ==
    \A n \in ApplyCalls :
        LET h == history[n]
            pages == log.dirty_pages
            r == h.result
            done == PagesApplied(h)
            reached == IF r.ok THEN Len(pages) ELSE r.err.page_idx + 1
        IN
        \A k \in 1 .. reached :
            LET cur == LenAfter(h.before, pages, k - 1)
                end == PageEnd(pages[k])
                rejected == /\ ~r.ok
                            /\ r.err.page_idx + 1 = k
                            /\ r.err.check = "extend by too much"
            IN
            /\ rejected =>
                 /\ r.err.kind = "InvalidFormat"
                 /\ end > cur
                 /\ end - cur > MAX_PAGE_EXTENSION
                 /\ IsReplayOf(h.after, h.before, pages, k - 1)
            /\ (~EndRejected(pages[k]) /\ end > cur) =>
                 IF end - cur > MAX_PAGE_EXTENSION
                 THEN rejected
                 ELSE /\ ~rejected
                      /\ Len(h.after) >= end
                      /\ \A i \in cur .. (end - 1) :
                             Covering(pages, done, i) = {} => h.after[i + 1] = 0

C10_Witness ==
    \E n \in ApplyCalls :
        LET h == history[n]
            pages == log.dirty_pages
        IN /\ h.result.ok
           /\ Len(h.after) - Len(h.before) > MAX_PAGE_EXTENSION
           /\ \E k \in 1 .. Len(pages) :
                  PageEnd(pages[k]) - LenAfter(h.before, pages, k - 1) = MAX_PAGE_EXTENSION
           /\ \E i \in Len(h.before) .. (Len(h.after) - 1) :
                  Covering(pages, Len(pages), i) = {}

\* The payload of the page has the declared size.
SizeMatches(p) == Len(p.data) = p.size

\* C11: a page whose payload length differs from its declared size is
\* rejected with InvalidFormat (no call that meets one succeeds, and the
\* size check rejects only such pages); the image then holds the earlier
\* pages only, zero-extended to the end of the page when the size check is
\* the one that rejected it: no octet of its payload is in the image.
C11_SizeMismatchRejected ==
    \A n \in ApplyCalls :
        LET h == history[n]
            pages == log.dirty_pages
            r == h.result
        IN
        /\ r.ok => \A k \in 1 .. Len(pages) : SizeMatches(pages[k])
        /\ ~r.ok =>
             LET k == r.err.page_idx + 1
                 cur == LenAfter(h.before, pages, k - 1)
             IN
             /\ k \in 1 .. Len(pages)
             /\ \A j \in 1 .. (k - 1) : SizeMatches(pages[j])
             /\ r.err.check = "data size mismatch" => ~SizeMatches(pages[k])
             /\ ~SizeMatches(pages[k]) =>
                  /\ r.err.kind = "InvalidFormat"
                  /\ Len(h.after) =
                        IF r.err.check = "data size mismatch"
                        THEN Max(cur, PageEnd(pages[k])) ELSE cur
                  /\ \A i \in 0 .. (Len(h.after) - 1) :
                        h.after[i + 1] =
                          IF i < cur
                          THEN ExpectedOctet(h.before, pages, k - 1, i)
                          ELSE 0

\* After a page that was applied, pages of too short and of too long a
\* payload are rejected by the size check, one of them after the image was
\* extended for it.
C11_Witness ==
    \E n \in ApplyCalls :
        LET h == history[n]
            pages == log.dirty_pages
        IN /\ ~h.result.ok
           /\ h.result.err.check = "data size mismatch"
           /\ h.result.err.page_idx = 1
           /\ h.after # h.before
           /\ \/ /\ Len(pages[2].data) < pages[2].size
                 /\ Len(h.after) > Len(h.before)
              \/ /\ Len(pages[2].data) > pages[2].size
                 /\ Len(h.before) > pages[2].offset

\* ------------------------------------------------------------------------
\* SpecMerge: one call of apply_transaction_logs or merge_transaction_logs
\* ------------------------------------------------------------------------
LogPaths == {"LOG1", "LOG2"}

MergePages ==
    {[offset |-> 0, size |-> 1, data |-> << 17 >>],
     [offset |-> 0, size |-> 1, data |-> << 68 >>],
     [offset |-> 1, size |-> 2, data |-> << 34, 51 >>],
     [offset |-> 3, size |-> 2, data |-> << 34, 51 >>],
     [offset |-> 1, size |-> 2, data |-> << 17 >>]}

MergeLogs == [sequence : LogSequences, dirty_pages : SeqsUpTo(MergePages, 1)]

\* What TransactionLog::open yields for a path: a parsed log, or an error
\* when the file is missing or is not a log.
OpenResults == {Err(IoError)} \cup {Ok(l) : l \in MergeLogs}

PathOptions == {None} \cup {Some(p) : p \in LogPaths}

InitMerge ==
    /\ call = NoCall
    /\ iter = NoIter
    /\ usize_max \in UsizeMaxima
    /\ hive_data = BufferOfLen(2)
    /\ log = NoLog
    /\ files = NoFiles
    /\ log_files \in [LogPaths -> OpenResults]
    /\ hives = NoHives
    /\ threads = NoThreads
    /\ key_cache_lock = Unlocked
    /\ history = << >>

\* apply_transaction_logs(&mut hive_data, &logs) on logs the caller opened,
\* passed in any order.
ApplyTransactionLogs ==
    /\ history = << >>
    /\ \E order \in SeqsUpTo({q \in LogPaths : log_files[q].ok}, 2) :
         LET logs == [i \in 1 .. Len(order) |-> log_files[order[i]].val]
             r == apply_transaction_logs(hive_data, logs, usize_max)
         IN /\ hive_data' = r.hive_data
            /\ history' = Append(history,
                   Call("apply_transaction_logs", [logs |-> logs], hive_data, r))
    /\ UNCHANGED << call, iter, usize_max, log, files, log_files, hives, threads,
                    key_cache_lock >>

\* merge_transaction_logs(&mut hive_data, log1_path, log2_path)
MergeTransactionLogs ==
    /\ history = << >>
    /\ \E log1_path \in PathOptions, log2_path \in PathOptions :
         LET r == merge_transaction_logs(hive_data, log1_path, log2_path,
                                         log_files, usize_max)
         IN /\ hive_data' = r.hive_data
            /\ history' = Append(history,
                   Call("merge_transaction_logs",
                        [log1_path |-> log1_path, log2_path |-> log2_path],
                        hive_data, r))
    /\ UNCHANGED << call, iter, usize_max, log, files, log_files, hives, threads,
                    key_cache_lock >>

NextMerge == ApplyTransactionLogs \/ MergeTransactionLogs

SpecMerge == InitMerge /\ [][NextMerge]_vars

\* The logs a call hands to the replay, in argument order.
UsableLog(path_opt) ==
    IF path_opt.some /\ log_files[path_opt.val].ok
    THEN << log_files[path_opt.val].val >> ELSE << >>

LogsGiven(h) ==
    IF h.name = "apply_transaction_logs" THEN h.args.logs
    ELSE UsableLog(h.args.log1_path) \o UsableLog(h.args.log2_path)

MergeCalls ==
    {n \in 1 .. Len(history) :
        history[n].name \in {"apply_transaction_logs", "merge_transaction_logs"}}

\* C1: two logs with distinct sequence numbers are replayed in ascending
\* order of sequence number whatever the argument order: the image is the
\* lower log's pages overwritten by the higher log's pages.
C1_AscendingSequenceOrder ==
    \A n \in MergeCalls :
        LET h == history[n]
            logs == LogsGiven(h)
        IN (Len(logs) = 2 /\ logs[1].sequence # logs[2].sequence /\ h.result.ok) =>
             LET lo == IF logs[1].sequence < logs[2].sequence THEN logs[1] ELSE logs[2]
                 hi == IF logs[1].sequence < logs[2].sequence THEN logs[2] ELSE logs[1]
                 pages == lo.dirty_pages \o hi.dirty_pages
             IN /\ IsReplayOf(h.after, h.before, pages, Len(pages))
                /\ h.result.val = Len(pages)

\* Both argument orders of the scenario occur: the log with the higher
\* sequence number is passed first and writes the same octets as the other.
C1_Witness ==
    \E n \in MergeCalls :
        LET h == history[n]
            logs == LogsGiven(h)
        IN /\ h.name = "merge_transaction_logs"
           /\ h.result.ok
           /\ Len(logs) = 2
           /\ logs[1].sequence > logs[2].sequence
           /\ Len(logs[1].dirty_pages) = 1 /\ Len(logs[2].dirty_pages) = 1
           /\ logs[1].dirty_pages[1].offset = logs[2].dirty_pages[1].offset
           /\ logs[1].dirty_pages[1].size = logs[2].dirty_pages[1].size
           /\ logs[1].dirty_pages[1].data # logs[2].dirty_pages[1].data
           /\ SubSeq(h.after, 1, 1) = logs[1].dirty_pages[1].data

\* A log path was given, and TransactionLog::open fails for it.
Unusable(path_opt) == path_opt.some /\ ~log_files[path_opt.val].ok

\* C12: merge_transaction_logs skips a log path for which
\* TransactionLog::open fails as if it was not given: with no usable log
\* it returns Ok(0) and leaves the image alone, with one it does what
\* apply_to_hive of that log does, with two what apply_transaction_logs of
\* the two does; an error of the replay is the result of the call.
C12_UnusableLogSkipped ==
    \A n \in MergeCalls :
        LET h == history[n]
            logs == LogsGiven(h)
            outcome == [hive_data |-> h.after, result |-> h.result]
        IN h.name = "merge_transaction_logs" =>
             /\ Len(logs) = 0 => h.result = Ok(0) /\ h.after = h.before
             /\ Len(logs) = 1 => outcome = apply_to_hive(logs[1], h.before, usize_max)
             /\ Len(logs) = 2 =>
                  outcome = apply_transaction_logs(h.before, logs, usize_max)
             /\ ~h.result.ok =>
                  /\ Len(logs) > 0
                  /\ h.result.err.kind = "InvalidFormat"

\* The first log path cannot be opened, the second log is replayed and
\* changes the image.
C12_Witness ==
    \E n \in MergeCalls :
        LET h == history[n] IN
        /\ h.name = "merge_transaction_logs"
        /\ Unusable(h.args.log1_path)
        /\ h.args.log2_path.some
        /\ ~Unusable(h.args.log2_path)
        /\ h.result = Ok(1)
        /\ h.after # h.before

\* ------------------------------------------------------------------------
\* SpecHive: navigators are constructed, replayed, saved and queried
\* ------------------------------------------------------------------------
RECURSIVE PatchAll(_, _)
PatchAll(data, patches) ==
    IF patches = << >> THEN data
    ELSE LET q == patches[1] IN
         PatchAll(copy_from_slice(data, q[1], q[1] + Len(q[2]), q[2]),
                  SubSeq(patches, 2, Len(patches)))

\* Size of the header of a bin
HBIN_HEADER_SIZE == 32

\* A key node cell with a name of name_length octets: the size field, the
\* fixed part and the name, rounded up to a multiple of 8 octets.
KeyCellSize(name_length) == 8 * ((4 + KEY_NAME_OFFSET + name_length + 7) \div 8)

\* The root key node cell is the first cell of the first bin.
RootCellOffset == HBIN_HEADER_SIZE
RootCellSize == KeyCellSize(2)
HiveImageLen == HBIN_START_OFFSET + RootCellOffset + RootCellSize

\* A hive with one bin holding one allocated key node cell named "AB"
\* (compressed name, root key), before its checksum is written.
HiveImageUnsummed ==
    PatchAll([i \in 1 .. HiveImageLen |-> 0],
        << << 0, REGF_SIGNATURE >>,
           << 4, to_le_bytes(1) >>,
           << 8, to_le_bytes(1) >>,
           << 20, to_le_bytes(1) >>,
           << 24, to_le_bytes(3) >>,
           << 36, to_le_bytes(RootCellOffset) >>,
           << 40, to_le_bytes(RootCellOffset + RootCellSize) >>,
           << 44, to_le_bytes(1) >>,
           << 48, << 83, 0, 89, 0 >> >>,
           << HBIN_START_OFFSET, << 104, 98, 105, 110 >> >>,
           << HBIN_START_OFFSET + 8, to_le_bytes(RootCellOffset + RootCellSize) >>,
           << HBIN_START_OFFSET + RootCellOffset, to_le_bytes(U32_MOD - RootCellSize) >>,
           << HBIN_START_OFFSET + RootCellOffset + 4, << 110, 107, 36, 0 >> >>,
           << HBIN_START_OFFSET + RootCellOffset + 4 + 72, << 2, 0 >> >>,
           << HBIN_START_OFFSET + RootCellOffset + 4 + 76, << 65, 66 >> >> >>)

ValidHive ==
    copy_from_slice(HiveImageUnsummed, CHECKSUM_OFFSET, CHECKSUM_OFFSET + 4,
                    to_le_bytes(xor(xor(read_u32_le(HiveImageUnsummed, 0).val,
                                        xor(1, 1)),
                                    xor(xor(1, 3),
                                        xor(RootCellOffset,
                                            xor(RootCellOffset + RootCellSize,
                                                xor(1, 83 + OctetMod * OctetMod * 89)))))))

\* The same hive with a stale checksum word.
StaleChecksumHive ==
    copy_from_slice(ValidHive, CHECKSUM_OFFSET, CHECKSUM_OFFSET + 4, to_le_bytes(7))

HivePaths == {"SYSTEM", "OUT"}

\* Dirty pages over the hive: a header word, the key name, an extension
\* of the image, a page beyond MAX_HIVE_SIZE and the signature.
PageSequence == [offset |-> 4, size |-> 1, data |-> << 2 >>]
PageRename ==
    [offset |-> HBIN_START_OFFSET + RootCellOffset + 4 + 76, size |-> 1,
     data |-> << 67 >>]
PageExtend == [offset |-> HiveImageLen, size |-> 2, data |-> << 1, 2 >>]
PageTooFar == [offset |-> MAX_HIVE_SIZE - 1, size |-> 2, data |-> << 1, 2 >>]
PageSignature == [offset |-> 0, size |-> 1, data |-> << 88 >>]

\* What TransactionLog::open returns for the two log paths.
LogFilesOf(r1, r2) == [q \in LogPaths |-> IF q = "LOG1" THEN r1 ELSE r2]

LogsRenameExtend ==
    LogFilesOf(Ok([sequence |-> 11, dirty_pages |-> << PageRename, PageExtend >>]),
               Ok([sequence |-> 10, dirty_pages |-> << PageSequence >>]))
LogsTooFar ==
    LogFilesOf(Err(IoError),
               Ok([sequence |-> 10, dirty_pages |-> << PageTooFar >>]))
LogsSignature ==
    LogFilesOf(Ok([sequence |-> 10, dirty_pages |-> << PageSignature >>]),
               Ok([sequence |-> 11, dirty_pages |-> << >>]))

\* The hive files: "SYSTEM" exists, "OUT" does not yet.
FilesOf(image) == [q \in HivePaths |-> IF q = "SYSTEM" THEN Some(image) ELSE None]

\* Images a caller hands to from_vec.
VecInputs == {ValidHive, StaleChecksumHive}

\* Cell offsets a caller asks get_key for: the root key and the bin header.
KeyOffsets == {RootCellOffset, 0}

\* Where a caller saves to.
SavePaths == {"OUT"}

IoOutcomes == {"ok", "create fails", "write fails"}

InitHive ==
    /\ call = NoCall
    /\ iter = NoIter
    /\ usize_max = USIZE_WIDE_MAX
    /\ hive_data = << >>
    /\ log = NoLog
    /\ \E fs \in {<< FilesOf(ValidHive), LogsRenameExtend >>,
                   << FilesOf(StaleChecksumHive), LogsRenameExtend >>,
                   << FilesOf(ValidHive), LogsTooFar >>,
                   << FilesOf(StaleChecksumHive), LogsSignature >>} :
         /\ files = fs[1]
         /\ log_files = fs[2]
    /\ hives = NoHives
    /\ threads = NoThreads
    /\ key_cache_lock = Unlocked
    /\ history = << >>

\* The record kept of one navigator call: the navigators and the hive
\* files as the call found them, and what it returned.
HiveCall(name, args, result) ==
    [name |-> name, args |-> args, hives |-> hives, files |-> files,
     result |-> result]

\* A constructor publishes its navigator when it returns Ok.
Publish(name, args, result) ==
    /\ hives' = IF result.ok THEN Append(hives, result.val) ELSE hives
    /\ history' = Append(history,
                         HiveCall(name, args,
                                  IF result.ok THEN Ok(Len(hives) + 1)
                                  ELSE result))

\* Hive::open(path)
Open ==
    /\ Len(history) < MaxHiveCalls
    /\ \E path \in HivePaths :
         \E result \in {open(files, path)} :
            Publish("open", [path |-> path], result)
    /\ UNCHANGED << call, iter, usize_max, hive_data, log, files, log_files, threads,
                    key_cache_lock >>

\* Hive::from_vec(data)
FromVec ==
    /\ Len(history) < MaxHiveCalls
    /\ \E data \in VecInputs :
         \E result \in {from_vec(data)} :
            Publish("from_vec", [data |-> data], result)
    /\ UNCHANGED << call, iter, usize_max, hive_data, log, files, log_files, threads,
                    key_cache_lock >>

\* Hive::open_with_logs(hive_path, log1_path, log2_path)
OpenWithLogs ==
    /\ Len(history) < MaxHiveCalls
    /\ \E hive_path \in {"SYSTEM"},
          log1_path \in {None, Some("LOG1")}, log2_path \in {None, Some("LOG2")} :
         \E result \in {open_with_logs(files, log_files, hive_path, log1_path,
                                        log2_path, usize_max)} :
            Publish("open_with_logs",
                    [hive_path |-> hive_path, log1_path |-> log1_path,
                     log2_path |-> log2_path],
                    result)
    /\ UNCHANGED << call, iter, usize_max, hive_data, log, files, log_files, threads,
                    key_cache_lock >>

\* hive.apply_transaction_log(log_path)
ApplyTransactionLog ==
    /\ Len(history) < MaxHiveCalls
    /\ \E i \in DOMAIN hives, log_path \in LogPaths :
         \E r \in {apply_transaction_log(hives[i], log_files, log_path, usize_max)} :
         /\ hives' = IF r.result.ok
                     THEN Append([hives EXCEPT ![i] = r.self], r.result.val)
                     ELSE [hives EXCEPT ![i] = r.self]
         /\ history' = Append(history,
                              HiveCall("apply_transaction_log",
                                       [hive |-> i, log_path |-> log_path],
                                       IF r.result.ok THEN Ok(Len(hives) + 1)
                                       ELSE r.result))
    /\ UNCHANGED << call, iter, usize_max, hive_data, log, files, log_files, threads,
                    key_cache_lock >>

\* A file that a navigator is mapped from (Hive::open, Mmap::map).
MappedFrom(path) ==
    \E j \in DOMAIN hives :
        /\ hives[j].storage = "Mapped"
        /\ files[path].some
        /\ files[path].val = hives[j].data

\* hive.save(output_path).  Callers keep the contract of the SAFETY note
\* of Hive::open: a file is not written while a navigator is mapped from it.
Save ==
    /\ Len(history) < MaxHiveCalls
    /\ \E i \in DOMAIN hives, output_path \in SavePaths, io \in IoOutcomes :
         \E r \in {save(hives[i], files, output_path, io)} :
         /\ ~MappedFrom(output_path)
         /\ hives' = [hives EXCEPT ![i] = r.self]
         /\ files' = r.files
         /\ history' = Append(history,
                              HiveCall("save",
                                       [hive |-> i, output_path |-> output_path,
                                        io |-> io],
                                       r.result))
    /\ UNCHANGED << call, iter, usize_max, hive_data, log, log_files, threads,
                    key_cache_lock >>

\* hive.get_key(offset), by the one thread that uses the navigator
GetKey ==
    /\ Len(history) < MaxHiveCalls
    /\ \E i \in DOMAIN hives, offset \in KeyOffsets :
         \E r \in {get_key(hives[i], offset)} :
         /\ hives' = [hives EXCEPT ![i] = r.self]
         /\ history' = Append(history,
                              HiveCall("get_key",
                                       [hive |-> i, offset |-> offset],
                                       r.result))
    /\ UNCHANGED << call, iter, usize_max, hive_data, log, files, log_files, threads,
                    key_cache_lock >>

NextHive ==
    \/ Open
    \/ FromVec
    \/ OpenWithLogs
    \/ ApplyTransactionLog
    \/ Save
    \/ GetKey

SpecHive == InitHive /\ [][NextHive]_vars

\* The little-endian 32-bit word number w of an image, and one of its bits.
WordAt(data, w) ==
    data[4 * w + 1] + OctetMod * data[4 * w + 2]
    + OctetMod * OctetMod * data[4 * w + 3]
    + OctetMod * OctetMod * OctetMod * data[4 * w + 4]

Bit(v, k) == (v \div (2 ^ k)) % 2

ChecksumWord == CHECKSUM_OFFSET \div 4
WordsBeforeChecksum == 0 .. (ChecksumWord - 1)
BitsOfWord == 0 .. 27

\* The checksum word of the image is the XOR of the words in front of it:
\* bit by bit, it is the parity of that bit over those words.
ChecksumIsXor(data) ==
    /\ Len(data) >= BASE_BLOCK_SIZE
    /\ \A k \in BitsOfWord :
         Bit(WordAt(data, ChecksumWord), k)
           = Cardinality({w \in WordsBeforeChecksum : Bit(WordAt(data, w), k) = 1}) % 2

\* Two images agree in every octet outside the checksum field.
SameOutsideChecksum(a, b) ==
    /\ Len(a) = Len(b)
    /\ \A k \in 1 .. Len(a) :
         (k <= CHECKSUM_OFFSET \/ k > CHECKSUM_OFFSET + 4) => a[k] = b[k]

\* Signature and version of the image are those BaseBlock::parse accepts.
SignatureAndVersionValid(data) ==
    /\ Len(data) >= BASE_BLOCK_SIZE
    /\ SubSeq(data, 1, 4) = REGF_SIGNATURE
    /\ WordAt(data, 5) = 1
    /\ WordAt(data, 6) \in 3 .. 6

\* The call made last.
LastCall == history[Len(history)]

\* What the replay of a recorded open_with_logs or apply_transaction_log
\* call leaves in the buffer, and how many pages it applied.
ReplayOf(h) ==
    IF h.name = "open_with_logs"
    THEN merge_transaction_logs(h.files[h.args.hive_path].val, h.args.log1_path,
                                h.args.log2_path, log_files, usize_max)
    ELSE apply_to_hive(log_files[h.args.log_path].val,
                       h.hives[h.args.hive].data, usize_max)

\* The recorded call gets as far as replaying pages.
Replays(h) ==
    /\ h.name \in {"open_with_logs", "apply_transaction_log"}
    /\ h.name = "open_with_logs" => h.files[h.args.hive_path].some
    /\ h.name = "apply_transaction_log" => log_files[h.args.log_path].ok

\* The replay succeeded, and the call goes on to update_checksum.
UpdatesChecksum(h, replay) ==
    /\ replay.result.ok
    /\ h.name = "open_with_logs" => replay.result.val > 0

\* C4: every published navigator, whatever constructed it, has an image
\* whose checksum word equals the XOR of the words in front of it, and its
\* parsed base block carries that word; a call that replays pages publishes
\* the replayed image with the checksum computed over the replayed octets,
\* and it is that image which is parsed (a stale checksum in the file or a
\* page that changes a header word does not make the call fail).
C4_PublishedChecksumValid ==
    /\ \A i \in DOMAIN hives :
         /\ ChecksumIsXor(hives[i].data)
         /\ hives[i].base_block.checksum = WordAt(hives[i].data, ChecksumWord)
    /\ (Len(history) > 0 /\ Replays(LastCall)) =>
         \A replay \in {ReplayOf(LastCall)} :
            (/\ UpdatesChecksum(LastCall, replay)
             /\ SignatureAndVersionValid(replay.hive_data)) =>
                /\ LastCall.result.ok
                /\ SameOutsideChecksum(hives[LastCall.result.val].data,
                                       replay.hive_data)

\* A hive file with a stale checksum was opened with a log whose page
\* changes a header word, and the navigator published then replays a
\* further log that changes its image: that one is published too.
C4_Witness ==
    /\ Len(history) > 1
    /\ Replays(LastCall)
    /\ LastCall.name = "apply_transaction_log"
    /\ LastCall.result.ok
    /\ hives[LastCall.result.val].data # hives[LastCall.args.hive].data
    /\ \E n \in DOMAIN history :
         /\ history[n].name = "open_with_logs"
         /\ history[n].result = Ok(LastCall.args.hive)
         /\ ~ChecksumIsXor(history[n].files[history[n].args.hive_path].val)
         /\ Replays(history[n])
         /\ ~ChecksumIsXor(ReplayOf(history[n]).hive_data)

\* C7: a step that is a call of apply_transaction_log or save leaves every
\* navigator that existed before it as it was, the receiver's image, base
\* block and key cache included, whether the call succeeds or fails; a
\* successful apply_transaction_log adds exactly one navigator, the one it
\* returns, and nothing else adds one.
C7_ReceiverUnmodified ==
    [][(/\ Len(history') = Len(history) + 1
        /\ history'[Len(history')].name \in {"apply_transaction_log", "save"})
       =>
       LET h == history'[Len(history')]
           receiver == h.args.hive
       IN /\ hives'[receiver].data = hives[receiver].data
          /\ hives'[receiver].base_block = hives[receiver].base_block
          /\ hives'[receiver].key_cache = hives[receiver].key_cache
          /\ \A i \in DOMAIN hives : hives'[i] = hives[i]
          /\ IF h.name = "apply_transaction_log" /\ h.result.ok
             THEN /\ Len(hives') = Len(hives) + 1
                  /\ h.result.val = Len(hives')
                  /\ receiver # h.result.val
             ELSE Len(hives') = Len(hives)]_vars

\* A navigator with a cached key replays a log that changes the image: the
\* new navigator differs from the receiver, the receiver is as before.
C7_Witness ==
    /\ Len(history) > 0
    /\ LastCall.name = "apply_transaction_log"
    /\ LastCall.result.ok
    /\ DOMAIN LastCall.hives[LastCall.args.hive].key_cache # {}
    /\ hives[LastCall.args.hive] = LastCall.hives[LastCall.args.hive]
    /\ hives[LastCall.result.val].data # hives[LastCall.args.hive].data
    /\ DOMAIN hives[LastCall.result.val].key_cache = {}

\* The navigator that Hive::open yields for the file a save just wrote.
Reloaded(h) == open(files, h.args.output_path)

\* C8: right after a successful save the file holds as many octets as the
\* navigator's image, equal to the image outside the checksum field, with
\* the XOR checksum of the image in that field; Hive::open of the file
\* succeeds, its stored checksum is calculate_checksum of the reloaded
\* octets, and the reloaded navigator has the octets and the base block of
\* the saved one, hence the same key at every offset.
C8_SaveRoundTrip ==
    (Len(history) > 0 /\ LastCall.name = "save" /\ LastCall.result.ok) =>
        \A saved \in {hives[LastCall.args.hive]},
           written \in {files[LastCall.args.output_path]},
           reloaded \in {Reloaded(LastCall)} :
           /\ written.some
           /\ Len(written.val) = Len(saved.data)
           /\ SameOutsideChecksum(written.val, saved.data)
           /\ ChecksumIsXor(written.val)
           /\ reloaded.ok
           /\ WordAt(reloaded.val.data, ChecksumWord)
                = calculate_checksum(reloaded.val.data)
           /\ reloaded.val.data = saved.data
           /\ reloaded.val.base_block = saved.base_block
           /\ \A o \in KeyOffsets \cup {RootCellOffset + HBIN_START_OFFSET, U32_MAX} :
                get_key(reloaded.val, o).result
                  = get_key([saved EXCEPT !.key_cache = EmptyCache], o).result

\* A navigator whose image is a replayed one (it differs from the hive
\* file) is saved; the file written holds its renamed root key.
C8_Witness ==
    /\ Len(history) > 0
    /\ LastCall.name = "save"
    /\ LastCall.result.ok
    /\ files["SYSTEM"].val # hives[LastCall.args.hive].data
    /\ files[LastCall.args.output_path].val = hives[LastCall.args.hive].data
    /\ get_key(Reloaded(LastCall).val, RootCellOffset).result.ok
    /\ get_key(Reloaded(LastCall).val, RootCellOffset).result.val.key_node.name
         = << 67, 66 >>

\* ------------------------------------------------------------------------
\* SpecCache: threads call get_key concurrently on one navigator
\* ------------------------------------------------------------------------
Threads == 1 .. MaxThreads

\* A second key node cell, named "C", right behind the root key node.
SecondCellOffset == RootCellOffset + RootCellSize
SecondCellSize == KeyCellSize(1)

\* The hive with the two key node cells; the base block is that of
\* ValidHive, so its checksum is valid.
CacheHive ==
    PatchAll(ValidHive \o [i \in 1 .. SecondCellSize |-> 0],
        << << HBIN_START_OFFSET + SecondCellOffset,
              to_le_bytes(U32_MOD - SecondCellSize) >>,
           << HBIN_START_OFFSET + SecondCellOffset + 4, << 110, 107, 32, 0 >> >>,
           << HBIN_START_OFFSET + SecondCellOffset + 4 + 72, << 1, 0 >> >>,
           << HBIN_START_OFFSET + SecondCellOffset + 4 + 76, << 67 >> >> >>)

\* Offsets the threads ask for: the two key nodes and the bin header.
CacheOffsets == {RootCellOffset, SecondCellOffset, 0}

\* std::sync::RwLock promises no priority policy: a thread waiting for the
\* write lock may or may not block later requests for the read lock.
LockPolicies == {"unordered", "writers first"}

\* A thread that is not inside get_key.
IdleThread(calls) ==
    [pc |-> "idle", offset |-> 0, key_node |-> None, result |-> None,
     calls |-> calls]

\* The navigator the threads share.
SharedHive == hives[1]

InitCache ==
    /\ call = NoCall
    /\ iter = NoIter
    /\ usize_max = USIZE_WIDE_MAX
    /\ hive_data = << >>
    /\ log = NoLog
    /\ files = [q \in HivePaths |-> None]
    /\ log_files = [q \in LogPaths |-> Err(IoError)]
    /\ hives = << from_vec(CacheHive).val >>
    /\ threads = [t \in Threads |-> IdleThread(0)]
    /\ \E policy \in LockPolicies :
         key_cache_lock = [readers |-> {}, writer |-> None, policy |-> policy]
    /\ history = << >>

\* The number of get_key calls the first n threads have made.
RECURSIVE CallsMade(_)
CallsMade(n) == IF n = 0 THEN 0 ELSE CallsMade(n - 1) + threads[n].calls

\* Thread t enters get_key(offset) and asks for the read lock.
CallGetKey(t) ==
    /\ threads[t].pc = "idle"
    /\ CallsMade(MaxThreads) < MaxGetKeyCalls
    /\ \E offset \in CacheOffsets :
         threads' = [threads EXCEPT ![t] =
                        [pc |-> "read", offset |-> offset, key_node |-> None,
                         result |-> None, calls |-> @.calls + 1]]
    /\ UNCHANGED << call, iter, usize_max, hive_data, log, files, log_files, hives,
                    key_cache_lock, history >>

\* self.key_cache.read(): granted while no thread holds the write lock
\* and, if writers go first, none waits for it.
AcquireRead(t) ==
    /\ threads[t].pc = "read"
    /\ ~key_cache_lock.writer.some
    /\ key_cache_lock.policy = "writers first" =>
           \A u \in DOMAIN threads : threads[u].pc # "write"
    /\ key_cache_lock' = [key_cache_lock EXCEPT !.readers = @ \cup {t}]
    /\ threads' = [threads EXCEPT ![t].pc = "probe"]
    /\ UNCHANGED << call, iter, usize_max, hive_data, log, files, log_files, hives,
                    history >>

\* if let Some(key_node) = ....get(&offset) { return Ok(RegistryKey {..
\* key_node.clone() }) }: the probe, and on a hit the clone and the return.
Probe(t) ==
    /\ threads[t].pc = "probe"
    /\ \E cached \in {HashMap_get(SharedHive.key_cache, threads[t].offset)} :
         threads' = [threads EXCEPT ![t] =
                        IF cached.some
                        THEN [@ EXCEPT !.pc = "returned",
                                       !.result = Some(Ok(RegistryKey(
                                                       threads[t].offset,
                                                       cached.val)))]
                        ELSE [@ EXCEPT !.pc = "parse"]]
    /\ key_cache_lock' = [key_cache_lock EXCEPT
                             !.readers = readers_after_probe(@, t)]
    /\ UNCHANGED << call, iter, usize_max, hive_data, log, files, log_files, hives,
                    history >>

\* let key_node = self.parse_key_node(offset)?;
Parse(t) ==
    /\ threads[t].pc = "parse"
    /\ \E key_node \in {parse_key_node(SharedHive.data, threads[t].offset)} :
         threads' = [threads EXCEPT ![t] =
                        IF key_node.ok
                        THEN [@ EXCEPT !.pc = "write",
                                       !.key_node = Some(key_node.val)]
                        ELSE [@ EXCEPT !.pc = "returned",
                                       !.result = Some(key_node)]]
    /\ UNCHANGED << call, iter, usize_max, hive_data, log, files, log_files, hives,
                    key_cache_lock, history >>

\* self.key_cache.write(): granted while no thread holds the lock.
AcquireWrite(t) ==
    /\ threads[t].pc = "write"
    /\ key_cache_lock.readers = {}
    /\ ~key_cache_lock.writer.some
    /\ key_cache_lock' = [key_cache_lock EXCEPT !.writer = Some(t)]
    /\ threads' = [threads EXCEPT ![t].pc = "insert"]
    /\ UNCHANGED << call, iter, usize_max, hive_data, log, files, log_files, hives,
                    history >>

\* .insert(offset, key_node.clone()); the write guard is dropped at the
\* end of the statement; Ok(RegistryKey { .. key_node })
Insert(t) ==
    /\ threads[t].pc = "insert"
    /\ hives' = [hives EXCEPT ![1].key_cache =
                    HashMap_insert(@, threads[t].offset, threads[t].key_node.val)]
    /\ key_cache_lock' = [key_cache_lock EXCEPT !.writer = None]
    /\ threads' = [threads EXCEPT ![t] =
                      [@ EXCEPT !.pc = "returned",
                                !.result = Some(Ok(RegistryKey(
                                                threads[t].offset,
                                                threads[t].key_node.val)))]]
    /\ UNCHANGED << call, iter, usize_max, hive_data, log, files, log_files, history >>

\* The caller has the result; the thread may call again.
Return(t) ==
    /\ threads[t].pc = "returned"
    /\ threads' = [threads EXCEPT ![t] = IdleThread(@.calls)]
    /\ UNCHANGED << call, iter, usize_max, hive_data, log, files, log_files, hives,
                    key_cache_lock, history >>

\* What a thread inside get_key does next.
ThreadStep(t) ==
    \/ AcquireRead(t)
    \/ Probe(t)
    \/ Parse(t)
    \/ AcquireWrite(t)
    \/ Insert(t)
    \/ Return(t)

NextCache ==
    \/ \E t \in Threads : CallGetKey(t)
    \/ \E t \in Threads : AcquireRead(t)
    \/ \E t \in Threads : Probe(t)
    \/ \E t \in Threads : Parse(t)
    \/ \E t \in Threads : AcquireWrite(t)
    \/ \E t \in Threads : Insert(t)
    \/ \E t \in Threads : Return(t)

SpecCache == InitCache /\ [][NextCache]_vars

\* Every thread that can take a step of get_key eventually takes one: the
\* scheduler runs runnable threads and the lock is granted to a waiting
\* thread once it stays free.
SpecCacheFair == SpecCache /\ \A t \in Threads : WF_vars(ThreadStep(t))

\* What get_key(offset) returns when one thread calls it on the navigator
\* with an empty cache.
SingleThreaded(offset) ==
    get_key([SharedHive EXCEPT !.key_cache = EmptyCache], offset).result

\* C5: in every interleaving, each get_key(o) returns what a single-threaded
\* call on an empty cache returns, and a value cached for an offset stays
\* in the cache unchanged (a second insert for the offset stores an equal
\* node).
C5_ConcurrentGetKey ==
    /\ [](\A t \in DOMAIN threads :
            threads[t].pc = "returned" =>
                threads[t].result = Some(SingleThreaded(threads[t].offset)))
    /\ [][\A o \in DOMAIN SharedHive.key_cache :
            /\ o \in DOMAIN SharedHive'.key_cache
            /\ SharedHive'.key_cache[o] = SharedHive.key_cache[o]]_vars

\* Two threads missed the same offset and both inserted their node, while
\* the cache also holds the other key node.
C5_Witness ==
    \E t, u \in DOMAIN threads :
        /\ t # u
        /\ threads[t].pc = "returned" /\ threads[u].pc = "returned"
        /\ threads[t].key_node.some /\ threads[u].key_node.some
        /\ threads[t].offset = threads[u].offset
        /\ threads[t].offset \in DOMAIN SharedHive.key_cache

\* C6: a thread holds the read lock exactly while it probes and the write
\* lock exactly while it inserts, so never while it parses or waits for the
\* write lock; and every call of get_key that was started returns.
C6_LockScopeAndProgress ==
    /\ [](\A t \in DOMAIN threads :
            /\ (t \in key_cache_lock.readers) <=> (threads[t].pc = "probe")
            /\ (key_cache_lock.writer = Some(t)) <=> (threads[t].pc = "insert"))
    /\ \A t \in Threads :
         (threads[t].pc = "read") ~> (threads[t].pc = "returned")

\* A thread waits for the write lock, its key node parsed, while another
\* thread holds the read lock.
C6_Witness ==
    \E t, u \in DOMAIN threads :
        /\ threads[t].pc = "write"
        /\ threads[t].key_node.some
        /\ threads[u].pc = "probe"
        /\ key_cache_lock.readers = {u}

\* ------------------------------------------------------------------------
\* SpecCell: read_cell on images with every kind of stored size
\* ------------------------------------------------------------------------
Zeros(n) == [i \in 1 .. n |-> 0]

\* The two's complement encoding of an i32 in a size word.
i32_to_le_bytes(v) == to_le_bytes(IF v < 0 THEN v + U32_MOD ELSE v)

I32_MIN == 0 - (U32_MOD \div 2)
I32_MAX == (U32_MOD \div 2) - 1

\* Stored sizes: free and allocated cells, magnitudes below 4, sizes that
\* end at, before and behind the end of the image, and the extremes.
StoredSizes == {0, 1, 3, -3, 4, -4, 8, -8, 12, -12, 16, -16, I32_MIN, I32_MAX}

\* An image whose bin area holds two size words and four more octets.
CellImage(s1, s2) ==
    Zeros(HBIN_START_OFFSET) \o i32_to_le_bytes(s1) \o i32_to_le_bytes(s2)
    \o << 9, 8, 7, 6 >>

CellImages == {CellImage(s1, s2) : s1 \in {4, -8, 12, -12, 16, I32_MIN},
                                   s2 \in StoredSizes}

\* Cell offsets: the size words, offsets whose size word is cut by the end
\* of the image, the end of the image and beyond, and the offsets around
\* the overflow of the conversion to an absolute offset.
ReadOffsets ==
    {0, 4, 8, 9, 11, 12, 13, U32_MAX - HBIN_START_OFFSET,
     U32_MAX - HBIN_START_OFFSET + 1, U32_MAX}

InitCell ==
    /\ call = NoCall
    /\ iter = NoIter
    /\ usize_max = USIZE_WIDE_MAX
    /\ hive_data \in CellImages
    /\ log = NoLog
    /\ files = NoFiles
    /\ log_files = NoFiles
    /\ hives = NoHives
    /\ threads = NoThreads
    /\ key_cache_lock = Unlocked
    /\ history = << >>

\* hive.read_cell(offset) on a navigator whose image is hive_data
ReadCell ==
    /\ Len(history) < MaxCalls
    /\ \E offset \in ReadOffsets :
         \E result \in {read_cell(hive_data, offset)} :
            history' = Append(history,
                [name |-> "read_cell", args |-> [offset |-> offset],
                 result |-> result])
    /\ UNCHANGED << call, iter, usize_max, hive_data, log, files, log_files, hives,
                    threads, key_cache_lock >>

NextCell == ReadCell

SpecCell == InitCell /\ [][NextCell]_vars

ReadCellCalls == {n \in 1 .. Len(history) : history[n].name = "read_cell"}

\* The magnitude of the size word stored at absolute offset a of the
\* image: the word itself when its sign bit is clear, else its negation.
StoredMagnitude(data, a) ==
    LET w == data[a + 1] + OctetMod * data[a + 2]
             + OctetMod * OctetMod * data[a + 3]
             + OctetMod * OctetMod * OctetMod * data[a + 4]
    IN IF Bit(w, 27) = 1 THEN U32_MOD - w ELSE w

CellErrors == {"InvalidOffset", "TruncatedData", "InvalidCellSize"}

\* C13: read_cell(o) returns a slice exactly when o + HBIN_START_OFFSET
\* does not overflow a u32, the size word lies in the image, its magnitude
\* m is at least 4 and the cell ends in the image; the slice is then
\* image[HBIN_START_OFFSET+o+4 .. HBIN_START_OFFSET+o+m] for either sign of
\* the size.  Every other call returns InvalidOffset, TruncatedData or
\* InvalidCellSize.
C13_ReadCellBounds ==
    \A n \in ReadCellCalls :
        LET h == history[n]
            o == h.args.offset
            a == o + HBIN_START_OFFSET
            fits == /\ a <= U32_MAX
                    /\ a + 4 <= Len(hive_data)
                    /\ StoredMagnitude(hive_data, a) >= 4
                    /\ a + StoredMagnitude(hive_data, a) <= Len(hive_data)
        IN /\ h.result.ok <=> fits
           /\ h.result.ok =>
                LET m == StoredMagnitude(hive_data, a) IN
                /\ Len(h.result.val) = m - 4
                /\ \A i \in 1 .. (m - 4) : h.result.val[i] = hive_data[a + 4 + i]
           /\ ~h.result.ok => h.result.err.kind \in CellErrors

\* An allocated cell (negative size) that ends exactly at the end of the
\* image is read whole.
C13_Witness ==
    \E n \in ReadCellCalls :
        LET h == history[n]
            a == h.args.offset + HBIN_START_OFFSET
        IN /\ h.result.ok
           /\ hive_data[a + 4] = OctetMod - 1
           /\ a + StoredMagnitude(hive_data, a) = Len(hive_data)
           /\ Len(h.result.val) = 8

\* ------------------------------------------------------------------------
\* Subkey lists (subkey_list.rs) and their traversal (hive.rs)
\* ------------------------------------------------------------------------
\* b"li", b"lf", b"lh", b"ri"
SIG_LI == << 108, 105 >>
SIG_LF == << 108, 102 >>
SIG_LH == << 108, 104 >>
SIG_RI == << 114, 105 >>

\* SubkeyListType::from_signature(sig)
SubkeyListType_from_signature(sig) ==
    IF sig = SIG_LI THEN Ok("IndexLeaf")
    ELSE IF sig = SIG_LF THEN Ok("FastLeaf")
    ELSE IF sig = SIG_LH THEN Ok("HashLeaf")
    ELSE IF sig = SIG_RI THEN Ok("IndexRoot")
    ELSE Err([kind |-> "InvalidSubkeyList", list_type |-> sig])

\* SubkeyList::parse(data, offset)
SubkeyList_parse(data, offset) ==
    IF Len(data) < 4
    THEN Err(TruncatedData(offset, 4, Len(data)))
    ELSE
      LET list_type == SubkeyListType_from_signature(SubSeq(data, 1, 2))
          count == data[3] + OctetMod * data[4]
      IN
      IF ~list_type.ok THEN list_type
      ELSE IF list_type.val \in {"FastLeaf", "HashLeaf"}
      THEN LET expected_size == 4 + (count * 8) IN
           IF Len(data) < expected_size
           THEN Err(TruncatedData(offset, expected_size, Len(data)))
           ELSE Ok([variant |-> "LeafWithHints",
                    entries |-> [i \in 1 .. count |->
                        [key_offset |-> read_u32_le(data, 4 + ((i - 1) * 8)).val,
                         name_hint |-> read_u32_le(data, 4 + ((i - 1) * 8) + 4).val]]])
      ELSE LET expected_size == 4 + (count * 4) IN
           IF Len(data) < expected_size
           THEN Err(TruncatedData(offset, expected_size, Len(data)))
           ELSE Ok([variant |-> IF list_type.val = "IndexLeaf"
                                THEN "IndexLeaf" ELSE "IndexRoot",
                    offsets |-> [i \in 1 .. count |->
                        read_u32_le(data, 4 + ((i - 1) * 4)).val]])

\* Hive::parse_subkey_list(offset)
parse_subkey_list(data, offset) ==
    CHOOSE subkey_list \in
        {IF ~cell_data.ok THEN cell_data ELSE SubkeyList_parse(cell_data.val, offset) :
            cell_data \in {read_cell(data, offset)}} : TRUE

Reverse(q) == [i \in 1 .. Len(q) |-> q[Len(q) + 1 - i]]

key_offsets_iter_reversed(subkey_list) ==
    IF subkey_list.variant = "LeafWithHints"
    THEN Reverse([i \in 1 .. Len(subkey_list.entries) |->
                     subkey_list.entries[i].key_offset])
    ELSE Reverse(subkey_list.offsets)

\* SubkeyList::key_offsets_iter(&self), as the sequence it yields
key_offsets_iter(subkey_list) ==
    IF subkey_list.variant = "LeafWithHints"
    THEN [i \in 1 .. Len(subkey_list.entries) |-> subkey_list.entries[i].key_offset]
    ELSE subkey_list.offsets

\* SubkeyList::is_index_root(&self)
is_index_root(subkey_list) == subkey_list.variant = "IndexRoot"

\* KeyNode::has_subkeys(&self)
has_subkeys(key_node) == key_node.subkey_count > 0

\* for offset in subkey_offsets { subkeys.push(self.hive.get_key(offset)?); }
RECURSIVE get_keys(_, _, _, _)
get_keys(hive, subkey_offsets, i, subkeys) ==
    IF i > Len(subkey_offsets)
    THEN [self |-> hive, result |-> Ok(subkeys)]
    ELSE CHOOSE after \in
             {IF ~r.result.ok THEN r
              ELSE get_keys(r.self, subkey_offsets, i + 1,
                            Append(subkeys, r.result.val)) :
                 r \in {get_key(hive, subkey_offsets[i])}} : TRUE

\* ------------------------------------------------------------------------
\* SpecSubkeys: subkeys() of a key, one invocation of
\* collect_subkey_offsets per frame of the call stack
\* ------------------------------------------------------------------------
\* An allocated key node cell with a compressed name.
NkCell(name, subkey_count, subkey_list_offset) ==
    PatchAll(Zeros(KeyCellSize(1)),
        << << 0, i32_to_le_bytes(0 - KeyCellSize(1)) >>,
           << 4, << 110, 107, 32, 0 >> >>,
           << 4 + 20, to_le_bytes(subkey_count) >>,
           << 4 + 28, to_le_bytes(subkey_list_offset) >>,
           << 4 + 72, << Len(name), 0 >> >>,
           << 4 + 76, name >> >>)

RECURSIVE Concat(_)
Concat(qs) == IF qs = << >> THEN << >> ELSE qs[1] \o Concat(SubSeq(qs, 2, Len(qs)))

\* An allocated cell holding a subkey list: the size field, signature and
\* count, and room for six words.
ListCellSize == 4 + 4 + (6 * 4)
ListCell(sig, count, words) ==
    PatchAll(Zeros(ListCellSize),
        << << 0, i32_to_le_bytes(0 - ListCellSize) >>,
           << 4, sig >>,
           << 6, << count, 0 >> >>,
           << 8, Concat([i \in 1 .. Len(words) |-> to_le_bytes(words[i])]) >> >>)

\* Cell offsets of the keys and of the list cells of the images.
ParentKey == HBIN_HEADER_SIZE
KeyA == ParentKey + KeyCellSize(1)
KeyB == KeyA + KeyCellSize(1)
KeyC == KeyB + KeyCellSize(1)
List1 == KeyC + KeyCellSize(1)
List2 == List1 + ListCellSize
List3 == List2 + ListCellSize

\* The base block and the bin header of ValidHive, a parent key with the
\* given subkey count and list offset, three keys A, B and C without
\* subkeys, and three list cells.
SubkeyImage(subkey_count, subkey_list_offset, list1, list2, list3) ==
    SubSeq(ValidHive, 1, HBIN_START_OFFSET + HBIN_HEADER_SIZE)
    \o NkCell(<< 80 >>, subkey_count, subkey_list_offset)
    \o NkCell(<< 65 >>, 0, U32_MAX)
    \o NkCell(<< 66 >>, 0, U32_MAX)
    \o NkCell(<< 67 >>, 0, 0)
    \o list1 \o list2 \o list3

LiCBA == ListCell(SIG_LI, 3, << KeyC, KeyB, KeyA >>)
LfBAC == ListCell(SIG_LF, 3, << KeyB, KeyC, KeyA, KeyB, KeyC, KeyA >>)
LhAC == ListCell(SIG_LH, 2, << KeyA, KeyB, KeyC, KeyB >>)
LiB == ListCell(SIG_LI, 1, << KeyB >>)
LiEmpty == ListCell(SIG_LI, 0, << >>)

\* Images whose lists are acyclic: each leaf kind, index roots with
\* sentinel entries and nested index roots, sentinel list offsets of the
\* key, a key whose subkey count is 0, and lists or keys that do not parse.
ImgLi == SubkeyImage(3, List1, LiCBA, LiEmpty, LiEmpty)
ImgLf == SubkeyImage(3, List1, LfBAC, LiEmpty, LiEmpty)
ImgLh == SubkeyImage(2, List2, LiEmpty, LhAC, LiEmpty)
ImgRi ==
    SubkeyImage(3, List3, LiB, LhAC,
                ListCell(SIG_RI, 5, << List2, 0, U32_MAX, List1, 0 >>))
ImgRiNested ==
    SubkeyImage(3, List1, ListCell(SIG_RI, 2, << List2, List3 >>),
                ListCell(SIG_RI, 2, << List3, List3 >>), LhAC)
ImgListZero == SubkeyImage(1, 0, LiCBA, LiEmpty, LiEmpty)
ImgListNone == SubkeyImage(1, U32_MAX, LiCBA, LiEmpty, LiEmpty)
ImgCountZero == SubkeyImage(0, List1, LiCBA, LiEmpty, LiEmpty)
ImgBadSignature ==
    SubkeyImage(1, List1, ListCell(<< 108, 120 >>, 1, << KeyA >>), LiEmpty, LiEmpty)
ImgTruncatedList ==
    SubkeyImage(1, List1, ListCell(SIG_LF, 4, << KeyA, 0, KeyB, 0, KeyC, 0 >>),
                LiEmpty, LiEmpty)
ImgRiToKey ==
    SubkeyImage(2, List1, ListCell(SIG_RI, 2, << List2, KeyA >>), LiB, LiEmpty)
ImgLiToList ==
    SubkeyImage(2, List1, ListCell(SIG_LI, 2, << KeyA, List2 >>), LiB, LiEmpty)

\* Images in which an index root refers back to itself, directly and
\* through another index root.
ImgRiSelf ==
    SubkeyImage(2, List1, ListCell(SIG_RI, 2, << List2, List1 >>), LiB, LiEmpty)
ImgRiCycle ==
    SubkeyImage(2, List1, ListCell(SIG_RI, 1, << List2 >>),
                ListCell(SIG_RI, 2, << List3, List1 >>), LiB)

AcyclicImages ==
    {ImgLi, ImgLf, ImgLh, ImgRi, ImgRiNested, ImgListZero, ImgListNone,
     ImgCountZero, ImgBadSignature, ImgTruncatedList, ImgRiToKey, ImgLiToList}
CyclicImages == {ImgRiSelf, ImgRiCycle}
SubkeyImages == AcyclicImages \cup CyclicImages

\* The keys subkeys() is called on.
SubkeyParents == {ParentKey, KeyA, KeyC}

InitSubkeys ==
    /\ call = NoCall
    /\ iter = NoIter
    /\ usize_max = USIZE_WIDE_MAX
    /\ hive_data = << >>
    /\ log = NoLog
    /\ files = NoFiles
    /\ log_files = NoFiles
    /\ \E image \in SubkeyImages : hives = << from_vec(image).val >>
    /\ threads = NoThreads
    /\ key_cache_lock = Unlocked
    /\ history = << >>

\* An invocation collect_subkey_offsets(list_offset, offsets) that has not
\* run yet.
Invocation(list_offset) == [pc |-> "enter", list_offset |-> list_offset]

\* The call returns to its caller.
ReturnSubkeys(result) ==
    /\ history' = Append(history,
           [name |-> "subkeys", args |-> [key |-> call.key],
            offsets |-> call.offsets, result |-> result])
    /\ call' = NoCall

\* key.subkeys() up to its call of collect_subkey_offsets; key was handed
\* out by get_key(offset).
Subkeys ==
    /\ call = NoCall
    /\ Len(history) < MaxCalls
    /\ \E offset \in SubkeyParents :
         \E key \in {get_key(SharedHive, offset)} :
            /\ key.result.ok
            /\ IF ~has_subkeys(key.result.val.key_node)
               THEN /\ history' = Append(history,
                           [name |-> "subkeys", args |-> [key |-> offset],
                            offsets |-> << >>, result |-> Ok(<< >>)])
                    /\ call' = NoCall
               ELSE /\ call' = [pc |-> "collect", key |-> offset,
                                stack |-> << Invocation(
                                    key.result.val.key_node.subkey_list_offset) >>,
                                offsets |-> << >>]
                    /\ history' = history
            /\ hives' = << key.self >>
    /\ UNCHANGED << iter, usize_max, hive_data, log, files, log_files, threads,
                    key_cache_lock >>

Top == call.stack[Len(call.stack)]
Popped == SubSeq(call.stack, 1, Len(call.stack) - 1)

\* collect_subkey_offsets from its entry to its loop over an index root
\* or, for the sentinels, an error and a leaf, to its return.
CollectEnter ==
    /\ call.pc = "collect"
    /\ call.stack # << >>
    /\ Top.pc = "enter"
    /\ IF Top.list_offset = U32_MAX \/ Top.list_offset = 0
       THEN /\ call' = [call EXCEPT !.stack = Popped]
            /\ history' = history
       ELSE \E subkey_list \in {parse_subkey_list(SharedHive.data, Top.list_offset)} :
              IF ~subkey_list.ok
              THEN ReturnSubkeys(subkey_list)
              ELSE IF is_index_root(subkey_list.val)
              THEN /\ call' = [call EXCEPT !.stack = Append(Popped,
                                   [pc |-> "loop", list_offset |-> Top.list_offset,
                                    offsets |-> key_offsets_iter(subkey_list.val),
                                    i |-> 1])]
                   /\ history' = history
              ELSE /\ call' = [call EXCEPT
                                   !.stack = Popped,
                                   !.offsets = @ \o key_offsets_iter(subkey_list.val)]
                   /\ history' = history
    /\ UNCHANGED << iter, usize_max, hive_data, log, files, log_files, hives,
                    threads, key_cache_lock >>

\* for offset in subkey_list.key_offsets_iter() {
\*     self.collect_subkey_offsets(offset, offsets)?; }: one iteration makes
\* the recursive call, which needs a frame on the thread's stack; the
\* stack holds MaxDepth frames.
CollectLoop ==
    /\ call.pc = "collect"
    /\ call.stack # << >>
    /\ Top.pc = "loop"
    /\ IF Top.i > Len(Top.offsets)
       THEN call' = [call EXCEPT !.stack = Popped]
       ELSE IF Len(call.stack) >= MaxDepth
       THEN call' = [call EXCEPT !.pc = "stack overflow"]
       ELSE call' = [call EXCEPT !.stack =
                        Append(Append(Popped, [Top EXCEPT !.i = @ + 1]),
                               Invocation(Top.offsets[Top.i]))]
    /\ UNCHANGED << iter, usize_max, hive_data, log, files, log_files, hives,
                    threads, key_cache_lock, history >>

\* subkeys() after collect_subkey_offsets returned Ok: the keys are fetched
\* in the order of the offsets.
GetKeys ==
    /\ call.pc = "collect"
    /\ call.stack = << >>
    /\ \E r \in {get_keys(SharedHive, call.offsets, 1, << >>)} :
         /\ hives' = << r.self >>
         /\ ReturnSubkeys(r.result)
    /\ UNCHANGED << iter, usize_max, hive_data, log, files, log_files, threads,
                    key_cache_lock >>

NextSubkeys ==
    \/ Subkeys
    \/ CollectEnter
    \/ CollectLoop
    \/ GetKeys

SpecSubkeys == InitSubkeys /\ [][NextSubkeys]_vars

SubkeysCalls == {n \in 1 .. Len(history) : history[n].name = "subkeys"}

\* The u32 stored at absolute offset a of the image.
U32At(data, a) ==
    data[a + 1] + OctetMod * data[a + 2] + OctetMod * OctetMod * data[a + 3]
    + OctetMod * OctetMod * OctetMod * data[a + 4]

\* The key offsets stored in the list cell at cell offset o, hints left
\* out, with each entry of an index root replaced by the content of the
\* list it points to, down to the given depth.
RECURSIVE Flattened(_, _, _)
Flattened(data, o, depth) ==
    IF o = 0 \/ o = U32_MAX \/ depth = 0 THEN << >>
    ELSE LET a == o + HBIN_START_OFFSET + 4
             sig == << data[a + 1], data[a + 2] >>
             count == data[a + 3] + OctetMod * data[a + 4]
         IN IF sig = SIG_RI
            THEN Concat([j \in 1 .. count |->
                            Flattened(data, U32At(data, a + 4 * j), depth - 1)])
            ELSE IF sig = SIG_LI
            THEN [j \in 1 .. count |-> U32At(data, a + 4 * j)]
            ELSE [j \in 1 .. count |-> U32At(data, a + 8 * j - 4)]

\* The name stored in the key node cell at cell offset o.
StoredName(data, o) ==
    LET a == o + HBIN_START_OFFSET + 4 IN
    SubSeq(data, a + KEY_NAME_OFFSET + 1, a + KEY_NAME_OFFSET + data[a + 73])

\* C14: a call of subkeys() that returns Ok on a key with a non-zero subkey
\* count returns the keys at the offsets of its subkey list in stored
\* order, flattened depth-first: leaf entries in stored order without their
\* hints, every index root entry replaced in place by the content of the
\* list it points to, nothing for a list offset of 0 or 0xFFFFFFFF; for
\* such a list offset of the key itself the call returns Ok and no key.
C14_SubkeysInStoredOrder ==
    \A n \in SubkeysCalls :
        LET h == history[n]
            data == SharedHive.data
            list_offset == U32At(data, h.args.key + HBIN_START_OFFSET + 4 + 28)
            subkey_count == U32At(data, h.args.key + HBIN_START_OFFSET + 4 + 20)
        IN
        /\ (subkey_count > 0 /\ list_offset \in {0, U32_MAX}) => h.result = Ok(<< >>)
        /\ (subkey_count > 0 /\ h.result.ok) =>
             LET expected == Flattened(data, list_offset, MaxDepth) IN
             /\ Len(h.result.val) = Len(expected)
             /\ \A i \in 1 .. Len(expected) :
                  /\ h.result.val[i].offset = expected[i]
                  /\ h.result.val[i].key_node.name = StoredName(data, expected[i])

\* An index root with entries 0 and 0xFFFFFFFF between a hash leaf and an
\* index leaf: the keys come back as A, C, B, which is neither the order of
\* their offsets nor its reverse.
C14_Witness ==
    \E n \in SubkeysCalls :
        LET h == history[n] IN
        /\ SharedHive.data = ImgRi
        /\ h.args.key = ParentKey
        /\ h.result.ok
        /\ Len(h.result.val) = 3
        /\ h.result.val[1].offset = KeyA
        /\ h.result.val[2].offset = KeyC
        /\ h.result.val[3].offset = KeyB
        /\ h.result.val[2].key_node.name = << 67 >>

\* C15: no traversal of subkey lists exhausts the call stack: the depth of
\* the recursion of collect_subkey_offsets is bounded on every image.
C15_TraversalBounded == call.pc # "stack overflow"

\* ------------------------------------------------------------------------
\* Value keys (value.rs, cell.rs), big data (bigdata.rs) and the reading
\* of value data (hive.rs)
\* ------------------------------------------------------------------------
\* 0x80000000, the high bit of a 32-bit word
HIGH_BIT == U32_MOD \div 2

\* Largest value stored in one cell (16344 in the source); a longer value
\* is a big-data value.
MAX_DIRECT_DATA_SIZE == 8

\* ValueType::from_u32(value)
ValueType_from_u32(value) ==
    Ok(IF value = 0 THEN [name |-> "None"]
       ELSE IF value = 1 THEN [name |-> "String"]
       ELSE IF value = 2 THEN [name |-> "ExpandString"]
       ELSE IF value = 3 THEN [name |-> "Binary"]
       ELSE IF value = 4 THEN [name |-> "Dword"]
       ELSE IF value = 5 THEN [name |-> "DwordBigEndian"]
       ELSE IF value = 6 THEN [name |-> "Link"]
       ELSE IF value = 7 THEN [name |-> "MultiString"]
       ELSE IF value = 8 THEN [name |-> "ResourceList"]
       ELSE IF value = 9 THEN [name |-> "FullResourceDescriptor"]
       ELSE IF value = 10 THEN [name |-> "ResourceRequirementsList"]
       ELSE IF value = 11 THEN [name |-> "Qword"]
       ELSE [name |-> "Unknown", value |-> value])

\* String::from("(default)")
DEFAULT_VALUE_NAME == << 40, 100, 101, 102, 97, 117, 108, 116, 41 >>

\* ValueKey::parse(data, offset)
ValueKey_parse(data, offset) ==
    IF Len(data) < 20
    THEN Err(TruncatedData(offset, 20, Len(data)))
    ELSE IF SubSeq(data, 1, 2) # << 118, 107 >>
    THEN Err(InvalidFormat("Expected 'vk' signature", offset))
    ELSE
      LET name_length == read_u16_le(data, 2).val
          data_length_raw == i32_from_le_bytes(SubSeq(data, 5, 8))
          \* (data_length_raw & 0x7FFFFFFF) as u32
          data_length == IF data_length_raw < 0
                         THEN data_length_raw + HIGH_BIT ELSE data_length_raw
          data_type == ValueType_from_u32(read_u32_le(data, 12).val)
          flags == read_u16_le(data, 16).val
          name_end == 20 + name_length
          name_data == SubSeq(data, 21, name_end)
          name == IF name_length > 0
                  THEN IF flags % 2 # 0
                       THEN Ok(read_ascii_string(name_data))
                       ELSE read_utf16_string(name_data, offset)
                  ELSE Ok(DEFAULT_VALUE_NAME)
      IN
      IF name_length > 0 /\ name_end > Len(data)
      THEN Err(TruncatedData(offset, name_end, Len(data)))
      ELSE IF ~name.ok THEN name
      ELSE Ok([name_length |-> name_length,
               data_length |-> data_length,
               data_offset |-> read_u32_le(data, 8).val,
               data_type |-> data_type.val,
               flags |-> flags,
               name |-> name.val])

\* Hive::parse_value_key(offset)
parse_value_key(data, offset) ==
    CHOOSE value_key \in
        {IF ~cell_data.ok THEN cell_data ELSE ValueKey_parse(cell_data.val, offset) :
            cell_data \in {read_cell(data, offset)}} : TRUE

\* ValueKey::is_inline_data(&self)
is_inline_data(value_key) ==
    value_key.data_length <= 4 /\ value_key.data_length > 0

\* ValueKey::inline_data(&self)
inline_data(value_key) ==
    SubSeq(to_le_bytes(value_key.data_offset), 1, value_key.data_length)

\* BigDataBlock::parse(data, offset)
BigDataBlock_parse(data, offset) ==
    IF Len(data) < 8
    THEN Err(TruncatedData(offset, 8, Len(data)))
    ELSE IF SubSeq(data, 1, 2) # << 100, 98 >>
    THEN Err(InvalidFormat("Expected 'db' signature", offset))
    ELSE Ok([segment_count |-> read_u16_le(data, 2).val,
             segment_list_offset |-> read_u32_le(data, 4).val])

\* for (i, segment_offset) in segment_offsets.iter().enumerate() {
\*     data.extend_from_slice(self.read_cell(*segment_offset)?);
\*     if data.len() >= expected_length as usize { break; } }
RECURSIVE read_segments(_, _, _, _, _)
read_segments(image, segment_offsets, i, data, expected_length) ==
    IF i > Len(segment_offsets) THEN Ok(data)
    ELSE CHOOSE r \in
             {IF ~segment_data.ok THEN segment_data
              ELSE IF Len(data \o segment_data.val) >= expected_length
              THEN Ok(data \o segment_data.val)
              ELSE read_segments(image, segment_offsets, i + 1,
                                 data \o segment_data.val, expected_length) :
                 segment_data \in {read_cell(image, segment_offsets[i])}} : TRUE

\* Vec::truncate(len)
truncate(data, len) == IF Len(data) > len THEN SubSeq(data, 1, len) ELSE data

\* Hive::read_big_data(offset, expected_length)
read_big_data(image, offset, expected_length) ==
    LET header_cell == read_cell(image, offset) IN
    IF ~header_cell.ok THEN header_cell
    ELSE
      LET db_header == BigDataBlock_parse(header_cell.val, offset) IN
      IF ~db_header.ok THEN db_header
      ELSE
        LET segment_list_cell == read_cell(image, db_header.val.segment_list_offset)
            expected_list_size == db_header.val.segment_count * 4
        IN
        IF ~segment_list_cell.ok THEN segment_list_cell
        ELSE IF Len(segment_list_cell.val) < expected_list_size
        THEN Err(TruncatedData(db_header.val.segment_list_offset,
                               expected_list_size, Len(segment_list_cell.val)))
        ELSE
          LET \* actual_offset = segment_offset & 0x7FFFFFFF
              segment_offsets ==
                  [i \in 1 .. db_header.val.segment_count |->
                      read_u32_le(segment_list_cell.val, (i - 1) * 4).val % HIGH_BIT]
              data == read_segments(image, segment_offsets, 1, << >>,
                                    expected_length)
          IN IF ~data.ok THEN data
             ELSE Ok(truncate(data.val, expected_length))

\* The payload of the cell cut to the declared length.
read_value_data_truncating(image, offset, length) ==
    IF length = 0 THEN Ok(<< >>)
    ELSE IF length > MAX_DIRECT_DATA_SIZE
    THEN read_big_data(image, offset, length)
    ELSE LET cell_data == read_cell(image, offset) IN
         IF ~cell_data.ok THEN cell_data ELSE Ok(truncate(cell_data.val, length))

\* Hive::read_value_data(offset, length)
read_value_data(image, offset, length) ==
    IF length = 0 THEN Ok(<< >>)
    ELSE IF length > MAX_DIRECT_DATA_SIZE
    THEN read_big_data(image, offset, length)
    ELSE read_cell(image, offset)

RegistryValue_raw_data_sentinel_first(image, value_key) ==
    IF value_key.data_offset = U32_MAX \/ value_key.data_offset = 0
    THEN Ok(<< >>)
    ELSE IF is_inline_data(value_key)
    THEN Ok(inline_data(value_key))
    ELSE read_value_data(image, value_key.data_offset, value_key.data_length)

\* RegistryValue::raw_data(&self)
RegistryValue_raw_data(image, value_key) ==
    IF is_inline_data(value_key)
    THEN Ok(inline_data(value_key))
    ELSE IF value_key.data_offset = U32_MAX \/ value_key.data_offset = 0
    THEN Ok(<< >>)
    ELSE read_value_data(image, value_key.data_offset, value_key.data_length)

\* str::split('\0').filter(|s| !s.is_empty()): `current` is the piece
\* being read.
RECURSIVE split_nul(_, _, _)
split_nul(str, i, current) ==
    IF i > Len(str)
    THEN IF current = << >> THEN << >> ELSE << current >>
    ELSE IF str[i] = 0
    THEN (IF current = << >> THEN << >> ELSE << current >>)
         \o split_nul(str, i + 1, << >>)
    ELSE split_nul(str, i + 1, Append(current, str[i]))

\* ValueData::parse(data, value_type, offset)
ValueData_parse(data, value_type, offset) ==
    IF data = << >> THEN Ok([variant |-> "None"])
    ELSE IF value_type.name = "None" THEN Ok([variant |-> "None"])
    ELSE IF value_type.name \in {"String", "ExpandString"}
    THEN LET s == read_utf16_string(data, offset) IN
         IF ~s.ok THEN s ELSE Ok([variant |-> value_type.name, value |-> s.val])
    ELSE IF value_type.name = "Binary"
    THEN Ok([variant |-> "Binary", value |-> data])
    ELSE IF value_type.name = "Dword"
    THEN IF Len(data) < 4 THEN Err(TruncatedData(offset, 4, Len(data)))
         ELSE Ok([variant |-> "Dword", value |-> read_u32_le(data, 0).val])
    ELSE IF value_type.name = "DwordBigEndian"
    THEN IF Len(data) < 4 THEN Err(TruncatedData(offset, 4, Len(data)))
         ELSE Ok([variant |-> "DwordBigEndian",
                  value |-> data[4] + OctetMod * data[3]
                            + OctetMod * OctetMod * data[2]
                            + OctetMod * OctetMod * OctetMod * data[1]])
    ELSE IF value_type.name = "Qword"
    THEN IF Len(data) < 8 THEN Err(TruncatedData(offset, 8, Len(data)))
         ELSE Ok([variant |-> "Qword",
                  value |-> [lo |-> read_u32_le(data, 0).val,
                             hi |-> read_u32_le(data, 4).val]])
    ELSE IF value_type.name = "MultiString"
    THEN LET full_string == read_utf16_string(data, offset) IN
         IF ~full_string.ok THEN full_string
         ELSE Ok([variant |-> "MultiString",
                  value |-> split_nul(full_string.val, 1, << >>)])
    ELSE Ok([variant |-> "Unknown", value |-> data])

\* RegistryValue::data(&self)
RegistryValue_data(image, value_key) ==
    LET raw_data == IF is_inline_data(value_key)
                    THEN Ok(inline_data(value_key))
                    ELSE IF value_key.data_offset = U32_MAX
                            \/ value_key.data_offset = 0
                    THEN Ok(<< >>)
                    ELSE read_value_data(image, value_key.data_offset,
                                         value_key.data_length)
    IN IF ~raw_data.ok THEN raw_data
       ELSE ValueData_parse(raw_data.val, value_key.data_type,
                            value_key.data_offset)

\* ------------------------------------------------------------------------
\* SpecValue: raw_data() and data() of a value, over images with every
\* storage of the data
\* ------------------------------------------------------------------------
\* An allocated cell of the given size with the given payload.
Cell(size, payload) ==
    i32_to_le_bytes(0 - size) \o payload \o Zeros(size - 4 - Len(payload))

\* Cell offsets of the value key, of a data cell, of a big-data header, of
\* its segment list and of two segments.
ValueAt == HBIN_HEADER_SIZE
DataAt == ValueAt + 32
DbAt == DataAt + 16
SegListAt == DbAt + 16
Seg1At == SegListAt + 16
Seg2At == Seg1At + 12

\* A value key cell named "V" (ASCII) with the given raw data-length word,
\* data offset and type.
VkCell(data_length_raw, data_offset, data_type) ==
    Cell(DataAt - ValueAt,
         << 118, 107, 1, 0 >> \o to_le_bytes(data_length_raw)
         \o to_le_bytes(data_offset) \o to_le_bytes(data_type)
         \o << 1, 0, 0, 0, 86 >>)

DataPayload == [i \in 1 .. 12 |-> 10 + i]
Seg1Payload == [i \in 1 .. 8 |-> 30 + i]
Seg2Payload == [i \in 1 .. 8 |-> 40 + i]

\* The image: base block and bin header of ValueHive, the value key, the
\* data cell, the big-data header with its segment count, the segment
\* list with its three words, and the two segments.
ValueImage(data_length_raw, data_offset, data_type, segment_count, segments) ==
    SubSeq(ValidHive, 1, HBIN_START_OFFSET + HBIN_HEADER_SIZE)
    \o VkCell(data_length_raw, data_offset, data_type)
    \o Cell(DbAt - DataAt, DataPayload)
    \o Cell(SegListAt - DbAt,
            << 100, 98, segment_count, 0 >> \o to_le_bytes(SegListAt))
    \o Cell(Seg1At - SegListAt,
            Concat([i \in 1 .. 3 |-> to_le_bytes(segments[i])]))
    \o Cell(Seg2At - Seg1At, Seg1Payload)
    \o Cell(Seg2At - Seg1At, Seg2Payload)

\* A data-offset word whose octets are 1, 2, 3, 4; as an offset it lies
\* far behind the image.
InlineWord == 1 + OctetMod * (2 + OctetMod * (3 + OctetMod * 4))

\* Raw data-length words: effective lengths 0, 1..4, 5..MAX_DIRECT_DATA_SIZE
\* and above, with the high bit clear and set.
RawLengths ==
    {0, 2, 3, 4, 5, MAX_DIRECT_DATA_SIZE, MAX_DIRECT_DATA_SIZE + 1, 16, 17,
     HIGH_BIT, HIGH_BIT + 2, HIGH_BIT + 4, HIGH_BIT + 5,
     HIGH_BIT + MAX_DIRECT_DATA_SIZE + 1}
DataOffsets == {0, U32_MAX, DataAt, DbAt, InlineWord}
DataTypes == {0, 1, 2, 3, 4, 5, 6, 7, 11, 12}

\* Segment lists: both segments with the high bit set, in list order
\* against offset order with one high bit clear, one segment, none, a third
\* entry that is no cell, and a count the list cell is too short for.
SegmentLists ==
    {[count |-> 2, segments |-> << Seg1At + HIGH_BIT, Seg2At + HIGH_BIT, 0 >>],
     [count |-> 2, segments |-> << Seg2At, Seg1At + HIGH_BIT, 0 >>],
     [count |-> 1, segments |-> << Seg1At + HIGH_BIT, 0, 0 >>],
     [count |-> 0, segments |-> << 0, 0, 0 >>],
     [count |-> 3, segments |-> << Seg1At, Seg2At, 0 >>],
     [count |-> 4, segments |-> << Seg1At, Seg2At, Seg1At >>]}

ValueImages ==
    {ValueImage(l, o, t, 2, << Seg1At + HIGH_BIT, Seg2At + HIGH_BIT, 0 >>) :
        l \in RawLengths, o \in DataOffsets, t \in DataTypes}
    \cup {ValueImage(l, DbAt, 3, s.count, s.segments) :
            l \in {MAX_DIRECT_DATA_SIZE + 1, 16, 17}, s \in SegmentLists}

InitValue ==
    /\ call = NoCall
    /\ iter = NoIter
    /\ usize_max = USIZE_WIDE_MAX
    /\ hive_data \in ValueImages
    /\ log = NoLog
    /\ files = NoFiles
    /\ log_files = NoFiles
    /\ hives = NoHives
    /\ threads = NoThreads
    /\ key_cache_lock = Unlocked
    /\ history = << >>

\* The record kept of a call on the value whose key is value_key.
ValueCall(name, value_key, result) ==
    [name |-> name, value_key |-> value_key, result |-> result]

\* value.raw_data(), the value handed out by values() for the cell ValueAt
RawData ==
    /\ Len(history) < MaxCalls
    /\ \E value_key \in {parse_value_key(hive_data, ValueAt)} :
         /\ value_key.ok
         /\ \E result \in {RegistryValue_raw_data(hive_data, value_key.val)} :
              history' = Append(history,
                                ValueCall("raw_data", value_key.val, result))
    /\ UNCHANGED << call, iter, usize_max, hive_data, log, files, log_files,
                    hives, threads, key_cache_lock >>

\* value.data()
Data ==
    /\ Len(history) < MaxCalls
    /\ \E value_key \in {parse_value_key(hive_data, ValueAt)} :
         /\ value_key.ok
         /\ \E result \in {RegistryValue_data(hive_data, value_key.val)} :
              history' = Append(history, ValueCall("data", value_key.val, result))
    /\ UNCHANGED << call, iter, usize_max, hive_data, log, files, log_files,
                    hives, threads, key_cache_lock >>

NextValue == RawData \/ Data

SpecValue == InitValue /\ [][NextValue]_vars

ValueCalls == {n \in 1 .. Len(history) : history[n].name \in {"raw_data", "data"}}

\* The fields of the value key as they are stored in the image.
StoredLengthWord == U32At(hive_data, HBIN_START_OFFSET + ValueAt + 4 + 4)
StoredDataOffset == U32At(hive_data, HBIN_START_OFFSET + ValueAt + 4 + 8)
StoredDataType == U32At(hive_data, HBIN_START_OFFSET + ValueAt + 4 + 12)
EffectiveLength == StoredLengthWord % HIGH_BIT

\* The first n octets of the stored data-offset word.
OffsetWordOctets(n) ==
    SubSeq(hive_data, HBIN_START_OFFSET + ValueAt + 4 + 8 + 1,
           HBIN_START_OFFSET + ValueAt + 4 + 8 + n)

\* The typed decoding of octets that were read, or the error of the read.
Decoded(octets) ==
    IF ~octets.ok THEN octets
    ELSE ValueData_parse(octets.val, ValueType_from_u32(StoredDataType).val,
                         StoredDataOffset)

\* What a call returns when the octets of the value are `octets`.
Returns(h, octets) ==
    h.result = IF h.name = "raw_data" THEN octets ELSE Decoded(octets)

\* The source of the octets in the order of the claim as it was made:
\* inline, no data, big data, the cell.
SourceAsClaimed ==
    IF EffectiveLength \in 1 .. 4 THEN Ok(OffsetWordOctets(EffectiveLength))
    ELSE IF StoredDataOffset \in {0, U32_MAX} THEN Ok(<< >>)
    ELSE IF EffectiveLength > MAX_DIRECT_DATA_SIZE
    THEN read_big_data(hive_data, StoredDataOffset, EffectiveLength)
    ELSE read_cell(hive_data, StoredDataOffset)

\* The same order with the empty value in it.
SourceAmended ==
    IF EffectiveLength \in 1 .. 4 THEN Ok(OffsetWordOctets(EffectiveLength))
    ELSE IF StoredDataOffset \in {0, U32_MAX} THEN Ok(<< >>)
    ELSE IF EffectiveLength = 0 THEN Ok(<< >>)
    ELSE IF EffectiveLength > MAX_DIRECT_DATA_SIZE
    THEN read_big_data(hive_data, StoredDataOffset, EffectiveLength)
    ELSE read_cell(hive_data, StoredDataOffset)

\* C16 as claimed: raw_data() returns the octets of the source chosen in
\* the order inline (effective length 1..4), no data (data offset 0 or
\* 0xFFFFFFFF), big data (effective length above MAX_DIRECT_DATA_SIZE),
\* else the payload of the cell at the data offset; data() returns their
\* typed decoding.
C16_SourceOrderAsClaimed ==
    \A n \in ValueCalls : Returns(history[n], SourceAsClaimed)

\* C16, amended: the order is inline (effective length 1..4), no data (data
\* offset 0 or 0xFFFFFFFF), an empty buffer for an effective length of 0
\* (the cell at the data offset is not read), big data (effective length
\* above MAX_DIRECT_DATA_SIZE), else the payload of the cell at the data
\* offset; data() returns the typed decoding of these octets.
C16_SourceOrder ==
    \A n \in ValueCalls : Returns(history[n], SourceAmended)

\* A value of effective length 0 whose data offset is that of a cell:
\* raw_data() returns no octet and data() returns None, although the cell
\* has a payload; the calls were made in both orders.
C16_Witness ==
    /\ Len(history) = 2
    /\ history[1].name # history[2].name
    /\ EffectiveLength = 0
    /\ StoredDataOffset = DataAt
    /\ read_cell(hive_data, StoredDataOffset) = Ok(DataPayload)
    /\ \A n \in ValueCalls :
         history[n].result = IF history[n].name = "raw_data" THEN Ok(<< >>)
                             ELSE Ok([variant |-> "None"])

\* C17: is_inline_data() is true exactly when the high bit of the raw
\* data-length word is set, and a value whose raw data length is 1..4 with
\* the high bit clear is read from the cell at its data offset.
C17_InlineTestUsesRawWord ==
    \A n \in ValueCalls :
        LET h == history[n] IN
        /\ is_inline_data(h.value_key) <=> StoredLengthWord >= HIGH_BIT
        /\ (StoredLengthWord \in 1 .. 4 /\ StoredDataOffset \notin {0, U32_MAX}) =>
             Returns(h, read_cell(hive_data, StoredDataOffset))

\* The payloads of the cells at the segment offsets of the segment list,
\* high bits masked off, one behind the other.
SegmentCount == U32At(hive_data, HBIN_START_OFFSET + DbAt + 4) \div (OctetMod * OctetMod)
SegmentOffset(i) ==
    U32At(hive_data, HBIN_START_OFFSET + SegListAt + 4 * i) % HIGH_BIT
SegmentPayload(i) ==
    LET segment == read_cell(hive_data, SegmentOffset(i)) IN
    IF segment.ok THEN segment.val ELSE << >>
SegmentPayloads == Concat([i \in 1 .. SegmentCount |-> SegmentPayload(i)])

\* C18: a successful read of a big-data value returns exactly as many
\* octets as the declared data length: the segment payloads in the order
\* of the segment list, high bits of the offsets masked off, one behind
\* the other and cut to the declared length.
C18_BigDataLength ==
    \A n \in ValueCalls :
        LET h == history[n] IN
        (/\ h.name = "raw_data"
         /\ EffectiveLength > MAX_DIRECT_DATA_SIZE
         /\ StoredDataOffset = DbAt
         /\ h.result.ok) =>
            /\ Len(h.result.val) = EffectiveLength
            /\ h.result.val = SubSeq(SegmentPayloads, 1, EffectiveLength)

\* ------------------------------------------------------------------------
\* Bin headers and the iterators over bins and cells (hbin.rs, hive.rs)
\* ------------------------------------------------------------------------
\* b"hbin"
HBIN_SIGNATURE == << 104, 98, 105, 110 >>

\* HbinHeader::parse(data, expected_offset).  The 64-bit timestamp is kept
\* as its low and its high word.
HbinHeader_parse(data, expected_offset) ==
    IF Len(data) < HBIN_HEADER_SIZE
    THEN Err(TruncatedData(expected_offset, HBIN_HEADER_SIZE, Len(data)))
    ELSE
      LET signature == SubSeq(data, 1, 4) IN
      IF signature # HBIN_SIGNATURE
      THEN Err([kind |-> "InvalidSignature", expected |-> HBIN_SIGNATURE,
                found |-> signature])
      ELSE
        LET offset == read_u32_le(data, 4).val
            size == read_u32_le(data, 8).val
        IN IF offset # expected_offset
           THEN Err(InvalidFormat("Hbin offset mismatch", expected_offset))
           ELSE Ok([signature |-> signature,
                    offset |-> offset,
                    size |-> size,
                    reserved |-> << read_u32_le(data, 12).val,
                                    read_u32_le(data, 16).val >>,
                    timestamp |-> << read_u32_le(data, 20).val,
                                     read_u32_le(data, 24).val >>,
                    spare |-> read_u32_le(data, 28).val])

\* Hive::hbins(): the iterator starts at the first octet after the base
\* block.
Hive_hbins(hive) ==
    [kind |-> "hbins",
     data |-> SubSeq(hive.data, BASE_BLOCK_SIZE + 1, Len(hive.data)),
     offset |-> 0]

\* HbinIterator::next: the iterator after the call and the item returned.
\* The header is parsed once.
HbinIterator_next(self) ==
    IF self.offset >= Len(self.data)
    THEN [iter |-> self, item |-> None]
    ELSE
      CHOOSE r \in
        {IF result.ok
         THEN [iter |-> [self EXCEPT !.offset = self.offset + result.val.size],
               item |-> Some(result)]
         ELSE IF result.err.kind = "InvalidSignature"
         THEN [iter |-> self, item |-> None]
         ELSE [iter |-> self, item |-> Some(result)] :
           result \in {HbinHeader_parse(
                           SubSeq(self.data, self.offset + 1, Len(self.data)),
                           self.offset % U32_MOD)}} : TRUE

\* ------------------------------------------------------------------------
\* SpecBins: hbins() on images with every kind of bin header
\* ------------------------------------------------------------------------
\* A bin header with the given signature, stored offset and stored size.
BinHeader(signature, offset, size) ==
    signature \o to_le_bytes(offset) \o to_le_bytes(size)
    \o Zeros(HBIN_HEADER_SIZE - 12)

\* The kinds of bin laid out at position pos of the bin area: a bin of the
\* size of its header, a bin with a payload of 8 octets, a bin whose
\* stored size is 0, a bin whose stored offset is not its position, a
\* position whose signature is not hbin, a bin whose stored size exceeds
\* the octets it has, and a header cut short.
BinKinds == {"header only", "payload", "size zero", "wrong offset",
             "not hbin", "oversized", "cut"}

Bin(kind, pos) ==
    CASE kind = "header only" -> BinHeader(HBIN_SIGNATURE, pos, HBIN_HEADER_SIZE)
      [] kind = "payload" ->
            BinHeader(HBIN_SIGNATURE, pos, HBIN_HEADER_SIZE + 8) \o Zeros(8)
      [] kind = "size zero" -> BinHeader(HBIN_SIGNATURE, pos, 0)
      [] kind = "wrong offset" ->
            BinHeader(HBIN_SIGNATURE, pos + 8, HBIN_HEADER_SIZE)
      [] kind = "not hbin" ->
            BinHeader(<< 104, 98, 105, 0 >>, pos, HBIN_HEADER_SIZE)
      [] kind = "oversized" ->
            BinHeader(HBIN_SIGNATURE, pos, HBIN_HEADER_SIZE + 8)
      [] kind = "cut" -> SubSeq(BinHeader(HBIN_SIGNATURE, pos, HBIN_HEADER_SIZE), 1, 12)

\* The bin area made of bins of the given kinds, one behind the other.
RECURSIVE BinArea(_, _)
BinArea(kinds, pos) ==
    IF kinds = << >> THEN << >>
    ELSE LET bin == Bin(kinds[1], pos)
         IN bin \o BinArea(SubSeq(kinds, 2, Len(kinds)), pos + Len(bin))

BinImages ==
    {SubSeq(ValidHive, 1, BASE_BLOCK_SIZE) \o BinArea(kinds, 0) :
        kinds \in SeqsUpTo(BinKinds, MaxBins)}

InitBins ==
    /\ call = NoCall
    /\ iter = NoIter
    /\ usize_max = USIZE_WIDE_MAX
    /\ hive_data = << >>
    /\ log = NoLog
    /\ files = NoFiles
    /\ log_files = NoFiles
    /\ \E image \in BinImages : hives = << from_vec(image).val >>
    /\ threads = NoThreads
    /\ key_cache_lock = Unlocked
    /\ history = << >>

\* let mut it = hive.hbins();
Hbins ==
    /\ iter = NoIter
    /\ iter' = Hive_hbins(hives[1])
    /\ UNCHANGED << call, usize_max, hive_data, log, files, log_files, hives,
                    threads, key_cache_lock, history >>

\* it.next()
HbinNext ==
    /\ iter.kind = "hbins"
    /\ Len(history) < MaxNext
    /\ \E r \in {HbinIterator_next(iter)} :
         /\ iter' = r.iter
         /\ history' = Append(history, [name |-> "next", item |-> r.item])
    /\ UNCHANGED << call, usize_max, hive_data, log, files, log_files, hives,
                    threads, key_cache_lock >>

NextBins == Hbins \/ HbinNext

SpecBins == InitBins /\ [][NextBins]_vars

\* The calls of next() that yielded a bin header.
YieldedBins == {n \in 1 .. Len(history) :
                   history[n].item.some /\ history[n].item.val.ok}

\* The sum of the sizes of the bins yielded by the calls before call n.
RECURSIVE SizesBefore(_)
SizesBefore(n) ==
    IF n <= 1 THEN 0
    ELSE SizesBefore(n - 1)
         + (IF (n - 1) \in YieldedBins THEN history[n - 1].item.val.val.size
            ELSE 0)

\* The bin area of the image.
BinAreaOf(hive) == SubSeq(hive.data, BASE_BLOCK_SIZE + 1, Len(hive.data))

\* C19: each yielded bin lies behind the bin yielded before it, at the
\* sum of the sizes of the bins yielded earlier, and a call of next() at
\* the end of the image or at a header whose signature is not hbin
\* returns None.
C19_HbinsAscending ==
    \A n \in 1 .. Len(history) :
        LET item == history[n].item
            area == BinAreaOf(hives[1])
            p == SizesBefore(n)
        IN /\ n \in YieldedBins =>
                /\ item.val.val.offset = p
                /\ \A m \in YieldedBins :
                      m < n => history[m].item.val.val.offset < item.val.val.offset
           /\ (\/ p >= Len(area)
               \/ /\ p + HBIN_HEADER_SIZE <= Len(area)
                  /\ SubSeq(area, p + 1, p + 4) # HBIN_SIGNATURE) =>
                item = None

\* HbinCellIterator::new(data, hbin_offset)
HbinCellIterator_new(data, hbin_offset) ==
    [kind |-> "cells", data |-> data, offset |-> 0, hbin_offset |-> hbin_offset]

\* The end of a cell taken as the end of its payload of abs_size octets.
data_end_after_size_word(self, abs_size) == self.offset + 4 + abs_size

\* let data_end = self.offset + abs_size;
data_end(self, abs_size) == self.offset + abs_size

\* HbinCellIterator::next: the iterator after the call and the item
\* returned.  The size word is read once.
HbinCellIterator_next(self) ==
    IF self.offset >= Len(self.data)
    THEN [iter |-> self, item |-> None]
    ELSE
      CHOOSE r \in
        {IF ~size_result.ok
         THEN [iter |-> self, item |-> Some(size_result)]
         ELSE
           LET size == IF size_result.val >= U32_MOD \div 2
                       THEN size_result.val - U32_MOD
                       ELSE size_result.val
               abs_size == unsigned_abs(size)
               cell_offset == self.hbin_offset + self.offset
           IN IF size = 0
              THEN [iter |-> self, item |-> None]
              ELSE IF abs_size < 4
              THEN [iter |-> self,
                    item |-> Some(Err([kind |-> "InvalidCellSize",
                                       size |-> size,
                                       offset |-> cell_offset]))]
              ELSE IF data_end(self, abs_size) > Len(self.data)
              THEN [iter |-> self,
                    item |-> Some(Err(TruncatedData(cell_offset, abs_size,
                                          Len(self.data) - self.offset)))]
              ELSE [iter |-> [self EXCEPT !.offset = data_end(self, abs_size)],
                    item |-> Some(Ok([offset |-> cell_offset,
                                      size |-> abs_size,
                                      is_allocated |-> size < 0,
                                      data |-> SubSeq(self.data,
                                                  self.offset + 4 + 1,
                                                  data_end(self, abs_size))]))] :
           size_result \in {read_u32_le(self.data, self.offset)}} : TRUE

\* ------------------------------------------------------------------------
\* SpecCells: the cell iterator on data areas with every kind of size word
\* ------------------------------------------------------------------------
\* A size word followed by n octets that are no size word of a cell.
SizedPiece(size, n) == i32_to_le_bytes(size) \o [i \in 1 .. n |-> 9]

\* Pieces of a data area: free and allocated cells that are as long as
\* their size word says, a size word of 0, size words of magnitude 1 to 3
\* of either sign, cells whose size word reaches behind the octets they
\* have, and a size word cut short.
CellPieces ==
    {SizedPiece(s, unsigned_abs(s) - 4) : s \in {4, 8, -8, -12}}
    \cup {SizedPiece(s, 4) : s \in {0, 1, -1, 3, -3, -16, I32_MIN, I32_MAX}}
    \cup {<< 8, 0 >>}

CellAreas == {Concat(pieces) : pieces \in SeqsUpTo(CellPieces, MaxCells)}

\* hive_data is the data area of the bin the iterator is made for.
InitCells ==
    /\ call = NoCall
    /\ iter = NoIter
    /\ usize_max = USIZE_WIDE_MAX
    /\ hive_data \in CellAreas
    /\ log = NoLog
    /\ files = NoFiles
    /\ log_files = NoFiles
    /\ hives = NoHives
    /\ threads = NoThreads
    /\ key_cache_lock = Unlocked
    /\ history = << >>

\* let mut it = HbinCellIterator::new(data, hbin_offset);
CellsNew ==
    /\ iter = NoIter
    /\ \E hbin_offset \in {0, HBIN_HEADER_SIZE + 8} :
         iter' = HbinCellIterator_new(hive_data, hbin_offset)
    /\ UNCHANGED << call, usize_max, hive_data, log, files, log_files, hives,
                    threads, key_cache_lock, history >>

\* it.next()
CellNext ==
    /\ iter.kind = "cells"
    /\ Len(history) < MaxNext
    /\ \E r \in {HbinCellIterator_next(iter)} :
         /\ iter' = r.iter
         /\ history' = Append(history, [name |-> "next", item |-> r.item])
    /\ UNCHANGED << call, usize_max, hive_data, log, files, log_files, hives,
                    threads, key_cache_lock >>

NextCells == CellsNew \/ CellNext

SpecCells == InitCells /\ [][NextCells]_vars

\* The sum of the sizes of the cells yielded by the calls before call n:
\* the place in the data area that call n looks at.
RECURSIVE CellsBefore(_)
CellsBefore(n) ==
    IF n <= 1 THEN 0
    ELSE CellsBefore(n - 1)
         + (IF history[n - 1].item.some /\ history[n - 1].item.val.ok
            THEN history[n - 1].item.val.val.size
            ELSE 0)

\* Call n of next() returned the error of the given kind.
YieldsError(n, kind) ==
    /\ history[n].item.some
    /\ ~history[n].item.val.ok
    /\ history[n].item.val.err.kind = kind

\* C20: a call of next() that finds a size word of 0 returns None, one
\* that finds a size word of magnitude 1 to 3 yields InvalidCellSize, one
\* that finds a cell reaching behind the data area yields TruncatedData,
\* and a yielded cell starts where the cell yielded before it ended.
C20_CellIteration ==
    \A n \in 1 .. Len(history) :
        LET item == history[n].item
            p == CellsBefore(n)
        IN /\ p + 4 <= Len(hive_data) =>
                \A m \in {StoredMagnitude(hive_data, p)} :
                    /\ m = 0 => item = None
                    /\ m \in 1 .. 3 => YieldsError(n, "InvalidCellSize")
                    /\ (m >= 4 /\ p + m > Len(hive_data)) =>
                          YieldsError(n, "TruncatedData")
           /\ (n > 1 /\ item.some /\ item.val.ok) =>
                \A prev \in {history[n - 1].item.val.val} :
                    item.val.val.offset = prev.offset + prev.size

\* Two cells were yielded, an allocated one and a free one, and the third
\* call found a negative size word of magnitude below 4.
C20_Witness ==
    /\ Len(history) = 3
    /\ history[1].item.some /\ history[1].item.val.ok
    /\ history[2].item.some /\ history[2].item.val.ok
    /\ history[1].item.val.val.is_allocated
    /\ ~history[2].item.val.val.is_allocated
    /\ YieldsError(3, "InvalidCellSize")
    /\ history[3].item.val.err.size < 0

\* ------------------------------------------------------------------------
\* SpecHeader: BaseBlock::parse on inputs that fail each of its checks
\* ------------------------------------------------------------------------
\* BaseBlock::is_consistent
is_consistent(base_block) ==
    base_block.primary_sequence = base_block.secondary_sequence

\* An input of len octets cut from a base block with the given signature,
\* versions and sequence numbers, followed by 8 octets of a bin; its
\* checksum word is the XOR of the words in front of it, or that plus 1.
HeaderInput(signature, major, minor, primary, secondary, summed, len) ==
    LET block == PatchAll(SubSeq(HiveImageUnsummed, 1, BASE_BLOCK_SIZE),
                     << << 0, signature >>,
                        << 4, to_le_bytes(primary) >>,
                        << 8, to_le_bytes(secondary) >>,
                        << 20, to_le_bytes(major) >>,
                        << 24, to_le_bytes(minor) >> >>)
        sum == calculate_checksum(block)
        word == IF summed THEN sum ELSE (sum + 1) % U32_MOD
    IN SubSeq(copy_from_slice(block, CHECKSUM_OFFSET, CHECKSUM_OFFSET + 4,
                              to_le_bytes(word)) \o HBIN_SIGNATURE \o Zeros(4),
              1, len)

HeaderInputs ==
    {HeaderInput(signature, version[1], version[2], sequences[1], sequences[2],
                 summed, len) :
        signature \in {REGF_SIGNATURE, << 114, 101, 103, 0 >>},
        version \in ({1} \X {2, 3, 4, 5, 6, 7, U32_MAX}) \cup ({0, 2} \X {3, 6}),
        sequences \in {<< 0, 0 >>, << 1, 1 >>, << 1, 2 >>, << 2, 1 >>},
        summed \in BOOLEAN,
        len \in {0, BASE_BLOCK_SIZE - 1, BASE_BLOCK_SIZE, BASE_BLOCK_SIZE + 8}}

\* hive_data is the input handed to BaseBlock::parse.
InitHeader ==
    /\ call = NoCall
    /\ iter = NoIter
    /\ usize_max = USIZE_WIDE_MAX
    /\ hive_data \in HeaderInputs
    /\ log = NoLog
    /\ files = NoFiles
    /\ log_files = NoFiles
    /\ hives = NoHives
    /\ threads = NoThreads
    /\ key_cache_lock = Unlocked
    /\ history = << >>

\* let base_block = BaseBlock::parse(data);
ParseBaseBlock ==
    /\ history = << >>
    /\ \E result \in {BaseBlock_parse(hive_data)} :
         history' = << [name |-> "parse", result |-> result] >>
    /\ UNCHANGED << call, iter, usize_max, hive_data, log, files, log_files,
                    hives, threads, key_cache_lock >>

\* base_block.is_consistent()
IsConsistent ==
    /\ Len(history) = 1
    /\ history[1].result.ok
    /\ history' = Append(history,
           [name |-> "is_consistent",
            result |-> is_consistent(history[1].result.val)])
    /\ UNCHANGED << call, iter, usize_max, hive_data, log, files, log_files,
                    hives, threads, key_cache_lock >>

NextHeader == ParseBaseBlock \/ IsConsistent

SpecHeader == InitHeader /\ [][NextHeader]_vars

\* The call failed with the error of the given kind.
FailsWith(result, kind) == ~result.ok /\ result.err.kind = kind

\* C21: BaseBlock::parse fails with HiveTooSmall on an input of fewer
\* octets than a base block, else with InvalidSignature when the input
\* does not start with regf, else with ChecksumMismatch when its checksum
\* word is not the XOR of the words in front of it, else with
\* UnsupportedVersion when its version is not 1.3 to 1.6, and accepts
\* every other input; is_consistent() tells whether the two sequence
\* numbers of the input are equal.
C21_BaseBlockChecks ==
    \A n \in 1 .. Len(history) :
        LET h == history[n] IN
        /\ h.name = "parse" =>
             IF Len(hive_data) < BASE_BLOCK_SIZE
             THEN FailsWith(h.result, "HiveTooSmall")
             ELSE IF SubSeq(hive_data, 1, 4) # REGF_SIGNATURE
             THEN FailsWith(h.result, "InvalidSignature")
             ELSE IF ~ChecksumIsXor(hive_data)
             THEN FailsWith(h.result, "ChecksumMismatch")
             ELSE IF ~(WordAt(hive_data, 5) = 1 /\ WordAt(hive_data, 6) \in 3 .. 6)
             THEN FailsWith(h.result, "UnsupportedVersion")
             ELSE h.result.ok
        /\ h.name = "is_consistent" =>
             (h.result <=> WordAt(hive_data, 1) = WordAt(hive_data, 2))

\* An input was accepted whose sequence numbers differ.
C21_Witness ==
    /\ Len(history) = 2
    /\ history[1].result.ok
    /\ history[2].name = "is_consistent"
    /\ ~history[2].result

\* ------------------------------------------------------------------------
\* Transaction log parsing (transaction_log.rs)
\* ------------------------------------------------------------------------
\* const PAGE_SIZE: usize = 0x1000, scaled
PAGE_SIZE == 32

\* while offset + 512 <= data.len(): the octets a probe needs, scaled
PROBE_SIZE == 16

\* num_pages > 1000: the most pages one dirty vector may declare, scaled
MAX_VECTOR_PAGES == 2

\* dirty_pages.len() > 10000: the limit of the search, scaled
MAX_DIRTY_PAGES == 3

\* page_size > PAGE_SIZE as u32 * 16: the largest payload of a page, scaled
MAX_PAGE_DATA == 8

\* b"HvLE"
HVLE_SIGNATURE == << 72, 118, 76, 69 >>

\* b"DIRT"
DIRT_SIGNATURE == << 68, 73, 82, 84 >>

invalid_page_size_above_only(page_size) == page_size > MAX_PAGE_DATA

\* if page_size == 0 || page_size > PAGE_SIZE as u32 * 16 { continue; }
invalid_page_size(page_size) == page_size = 0 \/ page_size > MAX_PAGE_DATA

\* The loop of parse_dirty_vector over the entries that are left, from
\* offset on, with the pages read so far.
RECURSIVE read_entries(_, _, _, _)
read_entries(data, offset, left, pages) ==
    IF left = 0 \/ offset + 8 > Len(data) THEN pages
    ELSE
      LET page_offset == read_u32_le(data, offset).val
          page_size == read_u32_le(data, offset + 4).val
      IN IF invalid_page_size(page_size)
         THEN read_entries(data, offset + 8, left - 1, pages)
         ELSE IF offset + 8 + page_size <= Len(data)
         THEN read_entries(data, offset + 8 + page_size, left - 1,
                  Append(pages,
                         [offset |-> page_offset,
                          size |-> page_size,
                          data |-> SubSeq(data, offset + 8 + 1,
                                          offset + 8 + page_size)]))
         ELSE pages

\* TransactionLog::parse_dirty_vector(data)
parse_dirty_vector(data) ==
    IF Len(data) < 16 THEN Ok(<< >>)
    ELSE IF Len(data) >= 12
    THEN LET num_pages == read_u32_le(data, 8).val IN
         IF num_pages = 0 \/ num_pages > MAX_VECTOR_PAGES
         THEN Ok(<< >>)
         ELSE Ok(read_entries(data, 16, num_pages, << >>))
    ELSE Ok(<< >>)

\* The while loop of TransactionLog::parse from offset on, with the pages
\* accumulated so far.
RECURSIVE probe(_, _, _)
probe(data, offset, dirty_pages) ==
    IF offset + PROBE_SIZE > Len(data) THEN dirty_pages
    ELSE
      CHOOSE r \in
        {IF offset + PAGE_SIZE > Len(data) \/ Len(extended) > MAX_DIRTY_PAGES
         THEN extended
         ELSE probe(data, offset + PAGE_SIZE, extended) :
           extended \in
             {IF /\ offset + 4 <= Len(data)
                 /\ SubSeq(data, offset + 1, offset + 4) = DIRT_SIGNATURE
              THEN LET pages == parse_dirty_vector(
                                    SubSeq(data, offset + 1, Len(data)))
                   IN IF pages.ok THEN dirty_pages \o pages.val ELSE dirty_pages
              ELSE dirty_pages}} : TRUE

\* TransactionLog::parse(data)
TransactionLog_parse(data) ==
    IF Len(data) < PAGE_SIZE
    THEN Err(InvalidFormat("Transaction log too small", 0))
    ELSE IF SubSeq(data, 1, 4) # HVLE_SIGNATURE
    THEN Err([kind |-> "InvalidSignature", expected |-> HVLE_SIGNATURE,
              found |-> SubSeq(data, 1, 4)])
    ELSE Ok([sequence |-> read_u32_le(data, 4).val,
             dirty_pages |-> probe(data, PAGE_SIZE, << >>)])

\* ------------------------------------------------------------------------
\* SpecLog: a log file is parsed and the parsed log is applied
\* ------------------------------------------------------------------------
\* A record of a dirty vector: page offset, declared size and payload.
Entry(page_offset, page_size, payload) ==
    to_le_bytes(page_offset) \o to_le_bytes(page_size) \o payload

\* A dirty vector that declares num_pages pages, laid out from a page
\* boundary of the log and padded to the next one.
Vector(signature, num_pages, entries) ==
    LET used == signature \o Zeros(4) \o to_le_bytes(num_pages) \o Zeros(4)
                \o entries
    IN used \o Zeros((PAGE_SIZE - (Len(used) % PAGE_SIZE)) % PAGE_SIZE)

\* The kinds of page of a log behind its base block: vectors with one and
\* with two pages, a vector that declares no page and one that declares
\* more than MAX_VECTOR_PAGES, records of size 0 and above MAX_PAGE_DATA
\* in front of a page, a page of MAX_PAGE_DATA octets, a vector that
\* declares more pages than it holds, a page without the signature, and
\* a record whose payload is cut by the end of the log.
LogPageKinds ==
    {Vector(DIRT_SIGNATURE, 1, Entry(0, 1, << 17 >>)),
     Vector(DIRT_SIGNATURE, 2, Entry(1, 1, << 34 >>) \o Entry(3, 2, << 51, 68 >>)),
     Vector(DIRT_SIGNATURE, 0, Entry(0, 1, << 17 >>)),
     Vector(DIRT_SIGNATURE, MAX_VECTOR_PAGES + 1, Entry(0, 1, << 17 >>)),
     Vector(DIRT_SIGNATURE, 2, Entry(7, 0, << >>) \o Entry(1, 1, << 85 >>)),
     Vector(DIRT_SIGNATURE, 2,
            Entry(7, MAX_PAGE_DATA + 1, << >>) \o Entry(1, 1, << 85 >>)),
     Vector(DIRT_SIGNATURE, 1, Entry(2, MAX_PAGE_DATA, Zeros(MAX_PAGE_DATA))),
     Vector(DIRT_SIGNATURE, 2, Entry(MAX_HIVE_SIZE, 1, << 17 >>)),
     Vector(<< 68, 73, 82, 0 >>, 1, Entry(0, 1, << 17 >>)),
     DIRT_SIGNATURE \o Zeros(4) \o to_le_bytes(2) \o Zeros(4)
         \o Entry(0, 1, << 17 >>) \o Entry(1, 4, << 1, 2 >>)}

\* The base block of a log: signature, sequence number, padding.
LogBaseBlock(signature) ==
    signature \o to_le_bytes(10) \o Zeros(PAGE_SIZE - 8)

LogImages ==
    {LogBaseBlock(HVLE_SIGNATURE) \o Concat(kinds) :
        kinds \in SeqsUpTo(LogPageKinds, MaxLogPages)}
    \cup {LogBaseBlock(<< 72, 118, 76, 0 >>),
          SubSeq(LogBaseBlock(HVLE_SIGNATURE), 1, PAGE_SIZE - 1)}

\* The file at LOG1 holds a log image; hive_data is the buffer of the
\* caller.
InitLog ==
    /\ call = NoCall
    /\ iter = NoIter
    /\ usize_max = USIZE_WIDE_MAX
    /\ hive_data \in {BufferOfLen(2), << >>}
    /\ log = NoLog
    /\ \E image \in LogImages : files = [q \in {"LOG1"} |-> Some(image)]
    /\ log_files = NoFiles
    /\ hives = NoHives
    /\ threads = NoThreads
    /\ key_cache_lock = Unlocked
    /\ history = << >>

\* let log = TransactionLog::open("LOG1");
OpenLog ==
    /\ history = << >>
    /\ \E result \in {TransactionLog_parse(files["LOG1"].val)} :
         /\ history' = << [name |-> "open", result |-> result] >>
         /\ log' = IF result.ok THEN result.val ELSE log
    /\ UNCHANGED << call, iter, usize_max, hive_data, files, log_files, hives,
                    threads, key_cache_lock >>

\* log.apply_to_hive(&mut hive_data) for the log that was opened
ApplyOpened ==
    /\ Len(history) = 1
    /\ history[1].result.ok
    /\ \E r \in {apply_to_hive(log, hive_data, usize_max)} :
         /\ hive_data' = r.hive_data
         /\ history' = Append(history, Call("apply_to_hive", << >>, hive_data, r))
    /\ UNCHANGED << call, iter, usize_max, log, files, log_files, hives, threads,
                    key_cache_lock >>

NextLog == OpenLog \/ ApplyOpened

SpecLog == InitLog /\ [][NextLog]_vars

\* C22: a log that was parsed carries at most MAX_DIRTY_PAGES dirty
\* pages.
C22_ParsedPagesBounded ==
    \A n \in 1 .. Len(history) :
        (history[n].name = "open" /\ history[n].result.ok) =>
            Len(history[n].result.val.dirty_pages) <= MAX_DIRTY_PAGES

\* C28: every dirty page of a parsed log has a payload of its declared
\* size, which is at least 1 and at most MAX_PAGE_DATA, and applying a
\* parsed log never fails with a payload-length mismatch.
C28_ParsedPagesWellFormed ==
    \A n \in 1 .. Len(history) :
        LET h == history[n] IN
        /\ (h.name = "open" /\ h.result.ok) =>
              \A k \in DOMAIN h.result.val.dirty_pages :
                  LET page == h.result.val.dirty_pages[k] IN
                  /\ Len(page.data) = page.size
                  /\ page.size >= 1
                  /\ page.size <= MAX_PAGE_DATA
        /\ (h.name = "apply_to_hive" /\ ~h.result.ok) =>
              h.result.err.check # "data size mismatch"

\* A parsed log with several pages, one of them of MAX_PAGE_DATA octets,
\* was applied, and the application failed.
C28_Witness ==
    /\ Len(history) = 2
    /\ ~history[2].result.ok
    /\ Len(log.dirty_pages) >= 2
    /\ \E k \in DOMAIN log.dirty_pages : log.dirty_pages[k].size = MAX_PAGE_DATA

\* C23: data() of a value of type Link whose raw data is not empty gives
\* what the UTF-16LE decoding of the raw data gives, InvalidUtf16 for an
\* odd length included, and not the raw octets as a value of an unknown
\* type.
C23_LinkDecodedAsUtf16 ==
    \A n \in ValueCalls :
        LET h == history[n] IN
        (h.name = "data" /\ h.value_key.data_type.name = "Link") =>
            \A raw \in {RegistryValue_raw_data(hive_data, h.value_key)} :
                (raw.ok /\ raw.val # << >>) =>
                    \A s \in {read_utf16_string(raw.val, h.value_key.data_offset)} :
                        /\ Len(raw.val) % 2 = 1 => FailsWith(h.result, "InvalidUtf16")
                        /\ ~s.ok => h.result = s
                        /\ s.ok => /\ h.result.ok
                                   /\ h.result.val.variant # "Unknown"
                                   /\ h.result.val.value = s.val

\* C30: raw_data() of a value that is not inline, whose data offset is
\* neither 0 nor 0xFFFFFFFF and whose effective length is between 1 and
\* MAX_DIRECT_DATA_SIZE returns the whole payload of the cell at the data
\* offset, of the magnitude of the cell less 4 octets, whatever the
\* declared length is; it fails when there is no such cell in the image.
C30_DirectReadWholePayload ==
    \A n \in ValueCalls :
        LET h == history[n]
            a == StoredDataOffset + HBIN_START_OFFSET
        IN (/\ h.name = "raw_data"
            /\ ~is_inline_data(h.value_key)
            /\ StoredDataOffset \notin {0, U32_MAX}
            /\ EffectiveLength \in 1 .. MAX_DIRECT_DATA_SIZE) =>
               IF /\ a <= U32_MAX
                  /\ a + 4 <= Len(hive_data)
                  /\ StoredMagnitude(hive_data, a) >= 4
                  /\ a + StoredMagnitude(hive_data, a) <= Len(hive_data)
               THEN /\ h.result.ok
                    /\ Len(h.result.val) = StoredMagnitude(hive_data, a) - 4
                    /\ h.result.val
                         = SubSeq(hive_data, a + 4 + 1,
                                  a + StoredMagnitude(hive_data, a))
               ELSE ~h.result.ok

\* raw_data() returned a payload that is longer than the declared length
\* of the value.
C30_Witness ==
    \E n \in ValueCalls :
        /\ history[n].name = "raw_data"
        /\ ~is_inline_data(history[n].value_key)
        /\ EffectiveLength \in 5 .. MAX_DIRECT_DATA_SIZE
        /\ StoredDataOffset = DataAt
        /\ history[n].result = Ok(DataPayload)
        /\ Len(DataPayload) > EffectiveLength

\* ------------------------------------------------------------------------
\* Values of a key and lookup of a value by name (hive.rs)
\* ------------------------------------------------------------------------
\* KeyNode::has_values(&self)
has_values(key_node) == key_node.value_count > 0

\* u8::to_ascii_lowercase
to_ascii_lowercase(c) == IF c \in 65 .. 90 THEN c + 32 ELSE c

\* str::eq_ignore_ascii_case(&self, other)
eq_ignore_ascii_case(a, b) ==
    /\ Len(a) = Len(b)
    /\ \A i \in 1 .. Len(a) : to_ascii_lowercase(a[i]) = to_ascii_lowercase(b[i])

\* A value handed out by values(): the reference of the navigator is left
\* out, the image does not change.
RegistryValue(value_key) == [value_key |-> value_key]

\* for i in 0..value_count { ... let value_key = self.hive.parse_value_key(offset)?;
\*     values.push(RegistryValue { hive: self.hive, value_key }); }
RECURSIVE collect_values(_, _, _, _, _)
collect_values(image, list_data, i, value_count, values) ==
    IF i >= value_count THEN Ok(values)
    ELSE CHOOSE r \in
             {IF ~value_key.ok THEN value_key
              ELSE collect_values(image, list_data, i + 1, value_count,
                                  Append(values, RegistryValue(value_key.val))) :
                 value_key \in {parse_value_key(image,
                                    read_u32_le(list_data, i * 4).val)}} : TRUE

\* RegistryKey::values(&self)
RegistryKey_values(image, key_node) ==
    IF ~has_values(key_node) THEN Ok(<< >>)
    ELSE IF key_node.value_list_offset = U32_MAX \/ key_node.value_list_offset = 0
    THEN Ok(<< >>)
    ELSE
      LET list_data == read_cell(image, key_node.value_list_offset)
          value_count == key_node.value_count
      IN
      IF ~list_data.ok THEN list_data
      ELSE IF Len(list_data.val) < value_count * 4
      THEN Err(TruncatedData(key_node.value_list_offset, value_count * 4,
                             Len(list_data.val)))
      ELSE collect_values(image, list_data.val, 0, value_count, << >>)

\* RegistryError::NotFound(format!("Value '{}'", name))
NotFoundValue(name) == [kind |-> "NotFound", what |-> "Value", name |-> name]

\* for value in values { if value.value_key.name.eq_ignore_ascii_case(name)
\*     { return Ok(value); } }
RECURSIVE find_value(_, _, _)
find_value(values, i, name) ==
    IF i > Len(values) THEN Err(NotFoundValue(name))
    ELSE IF eq_ignore_ascii_case(values[i].value_key.name, name)
    THEN Ok(values[i])
    ELSE find_value(values, i + 1, name)

\* The value that matches the name and comes last in the list.
RegistryKey_value_last_match(image, key_node, name) ==
    LET values == RegistryKey_values(image, key_node) IN
    IF ~values.ok THEN values
    ELSE find_value(Reverse(values.val), 1, name)

\* RegistryKey::value(&self, name)
RegistryKey_value(image, key_node, name) ==
    LET values == RegistryKey_values(image, key_node) IN
    IF ~values.ok THEN values
    ELSE find_value(values.val, 1, name)

\* ------------------------------------------------------------------------
\* SpecLookup: values() and value(name) of a key, over images whose value
\* list holds names that differ in case only, in both orders
\* ------------------------------------------------------------------------
\* Cell offsets of the key, of five value keys and of the value list.
LookupKey == HBIN_HEADER_SIZE
VkLowerA == LookupKey + KeyCellSize(1)
VkUpperA == VkLowerA + 32
VkB == VkUpperA + 32
VkEAcute == VkB + 32
VkDefault == VkEAcute + 32
ValueListAt == VkDefault + 32

\* A value key cell with the given octets of its name and flags; the
\* data type tells the cells apart.
VkNamedCell(name_data, flags, data_type) ==
    Cell(32,
         << 118, 107, Len(name_data), 0 >> \o to_le_bytes(0)
         \o to_le_bytes(U32_MAX) \o to_le_bytes(data_type)
         \o << flags, 0, 0, 0 >> \o name_data)

\* A value list cell with room for five words.
ValueListCell(words) ==
    Cell(24, Concat([i \in 1 .. Len(words) |-> to_le_bytes(words[i])]))

\* The image: base block and bin header of ValidHive, a key "K" with the
\* given value count and value list offset, the values "a" and "A" (ASCII
\* names), "B" and a capital E with acute accent (UTF-16LE names), a value
\* without a name, and the value list.
LookupImage(value_count, value_list_offset, words) ==
    SubSeq(ValidHive, 1, HBIN_START_OFFSET + HBIN_HEADER_SIZE)
    \o PatchAll(NkCell(<< 75 >>, 0, U32_MAX),
           << << 4 + 36, to_le_bytes(value_count) >>,
              << 4 + 40, to_le_bytes(value_list_offset) >> >>)
    \o VkNamedCell(<< 97 >>, 1, 1)
    \o VkNamedCell(<< 65 >>, 1, 2)
    \o VkNamedCell(<< 66, 0 >>, 0, 3)
    \o VkNamedCell(<< 73, 1 >>, 0, 4)
    \o VkNamedCell(<< >>, 0, 5)
    \o ValueListCell(words)

\* Value lists: the two names that differ in case in both orders, one
\* value twice, every value, an entry that is no value key behind and in
\* front of a count that ends before it, no values, sentinel list offsets,
\* a count the list cell is too short for and a list offset behind the
\* image.
LookupImages ==
    {LookupImage(3, ValueListAt, << VkLowerA, VkUpperA, VkB >>),
     LookupImage(3, ValueListAt, << VkB, VkUpperA, VkLowerA >>),
     LookupImage(2, ValueListAt, << VkUpperA, VkUpperA >>),
     LookupImage(5, ValueListAt, << VkEAcute, VkDefault, VkB, VkUpperA, VkLowerA >>),
     LookupImage(2, ValueListAt, << VkLowerA, LookupKey >>),
     LookupImage(1, ValueListAt, << VkLowerA, LookupKey >>),
     LookupImage(0, ValueListAt, << VkLowerA, VkUpperA >>),
     LookupImage(2, 0, << VkLowerA, VkUpperA >>),
     LookupImage(2, U32_MAX, << VkLowerA, VkUpperA >>),
     LookupImage(6, ValueListAt, << VkLowerA, VkUpperA, VkB >>),
     LookupImage(1, ValueListAt + 24, << VkLowerA >>)}

\* The names looked up: "a", "A", "b", "B", "c", the small and the capital
\* e with acute accent, "(default)", "(DEFAULT)" and the empty name.
LookupNames ==
    {<< 97 >>, << 65 >>, << 98 >>, << 66 >>, << 99 >>, << 233 >>, << 201 >>,
     DEFAULT_VALUE_NAME, << 40, 68, 69, 70, 65, 85, 76, 84, 41 >>, << >>}

InitLookup ==
    /\ call = NoCall
    /\ iter = NoIter
    /\ usize_max = USIZE_WIDE_MAX
    /\ hive_data \in LookupImages
    /\ log = NoLog
    /\ files = NoFiles
    /\ log_files = NoFiles
    /\ hives = NoHives
    /\ threads = NoThreads
    /\ key_cache_lock = Unlocked
    /\ history = << >>

\* key.values(), the key handed out for the cell LookupKey
Values ==
    /\ Len(history) < MaxCalls
    /\ \E key_node \in {parse_key_node(hive_data, LookupKey)} :
         /\ key_node.ok
         /\ \E result \in {RegistryKey_values(hive_data, key_node.val)} :
              history' = Append(history, [name |-> "values", result |-> result])
    /\ UNCHANGED << call, iter, usize_max, hive_data, log, files, log_files,
                    hives, threads, key_cache_lock >>

\* key.value(name)
Value ==
    /\ Len(history) < MaxCalls
    /\ \E key_node \in {parse_key_node(hive_data, LookupKey)} :
         /\ key_node.ok
         /\ \E name \in LookupNames :
              \E result \in {RegistryKey_value(hive_data, key_node.val, name)} :
                 history' = Append(history, [name |-> "value",
                                             args |-> [name |-> name],
                                             result |-> result])
    /\ UNCHANGED << call, iter, usize_max, hive_data, log, files, log_files,
                    hives, threads, key_cache_lock >>

NextLookup == Values \/ Value

SpecLookup == InitLookup /\ [][NextLookup]_vars

\* The value count and the value list offset of the key as they are stored
\* in the image, and the value list they name: no values for a count of 0
\* or a sentinel offset, else the first `count` words of the list cell.
StoredValueCount == U32At(hive_data, HBIN_START_OFFSET + LookupKey + 4 + 36)
StoredValueList == U32At(hive_data, HBIN_START_OFFSET + LookupKey + 4 + 40)
OnDiskValueList ==
    IF StoredValueCount = 0 \/ StoredValueList \in {0, U32_MAX} THEN Ok(<< >>)
    ELSE LET cell == read_cell(hive_data, StoredValueList) IN
         IF ~cell.ok \/ Len(cell.val) < 4 * StoredValueCount
         THEN Err("unreadable")
         ELSE Ok([i \in 1 .. StoredValueCount |-> U32At(cell.val, 4 * (i - 1))])

\* The value keys of the on-disk list, in its order.
OnDiskValueKeys ==
    [i \in 1 .. Len(OnDiskValueList.val) |->
        parse_value_key(hive_data, OnDiskValueList.val[i])]

\* A name with its letters A to Z replaced by a to z.
AsciiFolded(name) ==
    [i \in 1 .. Len(name) |-> IF name[i] >= 65 /\ name[i] <= 90
                              THEN name[i] + 32 ELSE name[i]]

\* The places of the on-disk list whose value has the name, case of ASCII
\* letters aside.
MatchingPlaces(name) ==
    {i \in 1 .. Len(OnDiskValueKeys) :
        AsciiFolded(OnDiskValueKeys[i].val.name) = AsciiFolded(name)}

ValuesReadable ==
    /\ OnDiskValueList.ok
    /\ \A i \in 1 .. Len(OnDiskValueKeys) : OnDiskValueKeys[i].ok

\* C24: value(name) returns the first value, in the on-disk order of the
\* key's value list, whose name equals the argument under ASCII
\* case-insensitive comparison, and NotFound when no value of the key
\* matches; when the values of the key cannot be read, the call fails with
\* another error.
C24_ValueFirstMatch ==
    \A n \in 1 .. Len(history) :
        history[n].name = "value" =>
            LET h == history[n] IN
            IF ~ValuesReadable
            THEN ~h.result.ok /\ h.result.err.kind # "NotFound"
            ELSE LET places == MatchingPlaces(h.args.name) IN
                 IF places = {}
                 THEN FailsWith(h.result, "NotFound")
                 ELSE /\ h.result.ok
                      /\ \E i \in places :
                           /\ \A j \in places : i <= j
                           /\ h.result.val.value_key = OnDiskValueKeys[i].val

\* A lookup that returned a value whose name differs from the argument in
\* case, from a list that holds a second match behind it, followed by a
\* lookup of a name that no value of the key has.
C24_Witness ==
    /\ Len(history) = 2
    /\ history[1].name = "value"
    /\ history[1].result.ok
    /\ history[1].result.val.value_key.name # history[1].args.name
    /\ ValuesReadable
    /\ \E i, j \in MatchingPlaces(history[1].args.name) :
         i < j /\ OnDiskValueKeys[i].val # OnDiskValueKeys[j].val
    /\ history[2].name = "value"
    /\ FailsWith(history[2].result, "NotFound")

\* ------------------------------------------------------------------------
\* SpecBinCells: the cell iterator made for a bin of an image from the
\* bin's data area and the bin's offset, against read_cell on the image
\* ------------------------------------------------------------------------
\* A cell with the given size word whose payload counts up from `first`.
CountedCell(size, first) ==
    i32_to_le_bytes(size) \o [i \in 1 .. unsigned_abs(size) - 4 |-> first + i]

\* Data areas of a bin: an allocated and a free cell, two allocated cells
\* of different sizes, one cell, and cells followed by a size word of 0.
BinCellAreas ==
    {CountedCell(-8, 10) \o CountedCell(8, 20),
     CountedCell(-16, 30) \o CountedCell(-8, 50),
     CountedCell(-12, 60),
     CountedCell(-8, 70) \o Zeros(8)}

\* The bins of the areas, one behind the other from position pos.
RECURSIVE BinsOfAreas(_, _)
BinsOfAreas(areas, pos) ==
    IF areas = << >> THEN << >>
    ELSE LET bin == BinHeader(HBIN_SIGNATURE, pos,
                              HBIN_HEADER_SIZE + Len(areas[1])) \o areas[1]
         IN bin \o BinsOfAreas(SubSeq(areas, 2, Len(areas)), pos + Len(bin))

\* Images of one to two bins.
BinCellImages ==
    {SubSeq(ValidHive, 1, BASE_BLOCK_SIZE) \o BinsOfAreas(areas, 0) :
        areas \in SeqsUpTo(BinCellAreas, 2) \ {<< >>}}

InitBinCells ==
    /\ call = NoCall
    /\ iter = NoIter
    /\ usize_max = USIZE_WIDE_MAX
    /\ hive_data = << >>
    /\ log = NoLog
    /\ files = NoFiles
    /\ log_files = NoFiles
    /\ \E image \in BinCellImages : hives = << from_vec(image).val >>
    /\ threads = NoThreads
    /\ key_cache_lock = Unlocked
    /\ history = << >>

\* The bin headers that hive.hbins() yields from the iterator `it` on.
RECURSIVE collect_hbins(_)
collect_hbins(it) ==
    CHOOSE bins \in
        {IF r.item.some /\ r.item.val.ok
         THEN << r.item.val.val >> \o collect_hbins(r.iter)
         ELSE << >> : r \in {HbinIterator_next(it)}} : TRUE

\* for hbin in hive.hbins() { let hbin = hbin?;
\*     let mut it = HbinCellIterator::new(data area of hbin, hbin.offset);
\* for one of the bins: the data area is the octets of the bin behind its
\* header.
CellsOfBin ==
    /\ iter = NoIter
    /\ \E bins \in {collect_hbins(Hive_hbins(SharedHive))} :
         \E k \in 1 .. Len(bins) :
            LET hbin == bins[k]
                bin_start == BASE_BLOCK_SIZE + hbin.offset
            IN /\ iter' = HbinCellIterator_new(
                              SubSeq(SharedHive.data,
                                     bin_start + HBIN_HEADER_SIZE + 1,
                                     bin_start + hbin.size),
                              hbin.offset)
               /\ call' = [pc |-> "cells", hbin |-> hbin]
    /\ UNCHANGED << usize_max, hive_data, log, files, log_files, hives,
                    threads, key_cache_lock, history >>

NextBinCells == CellsOfBin \/ CellNext

SpecBinCells == InitBinCells /\ [][NextBinCells]_vars

\* C25: read_cell at the offset that the cell iterator of a bin reports
\* for a cell returns the payload that the iterator yielded for the cell.
C25_ReportedOffsetIsCellOffset ==
    \A n \in 1 .. Len(history) :
        (history[n].item.some /\ history[n].item.val.ok) =>
            LET cell == history[n].item.val.val IN
            read_cell(SharedHive.data, cell.offset) = Ok(cell.data)

\* ------------------------------------------------------------------------
\* SpecReplayFailure: replays that are refused at a page after earlier
\* pages, or an earlier log, were written
\* ------------------------------------------------------------------------
\* Pages over the buffer of 2 octets: a write into it, an extension by 2
\* octets, a page whose end overflows or lies beyond MAX_HIVE_SIZE, a page
\* with a payload shorter than its declared size that reaches one octet
\* behind the extended buffer, and a page with a payload longer than its
\* declared size.
PageWrite == [offset |-> 0, size |-> 1, data |-> << 17 >>]
PageGrow == [offset |-> 2, size |-> 2, data |-> << 34, 51 >>]
PageBeyond == [offset |-> U32_MAX, size |-> 1, data |-> << 17 >>]
PageShort == [offset |-> 3, size |-> 2, data |-> << 68 >>]
PageLong == [offset |-> 0, size |-> 1, data |-> << 68, 85 >>]

\* Logs a caller builds (the fields of TransactionLog are public), and
\* logs that TransactionLog::open yields: their payloads have the declared
\* size.
BuiltLogs ==
    [sequence : {10},
     dirty_pages : SeqsUpTo({PageWrite, PageGrow, PageBeyond, PageShort, PageLong},
                            MaxPages)]
OpenedLogs ==
    [sequence : LogSequences,
     dirty_pages : SeqsUpTo({PageWrite, PageGrow, PageBeyond}, 1)]

InitReplayFailure ==
    /\ call = NoCall
    /\ iter = NoIter
    /\ usize_max \in UsizeMaxima
    /\ hive_data = BufferOfLen(2)
    /\ log \in BuiltLogs
    /\ files = NoFiles
    /\ log_files \in [LogPaths -> {Err(IoError)} \cup {Ok(l) : l \in OpenedLogs}]
    /\ hives = NoHives
    /\ threads = NoThreads
    /\ key_cache_lock = Unlocked
    /\ history = << >>

NextReplayFailure == ApplyToHive \/ MergeTransactionLogs

SpecReplayFailure == InitReplayFailure /\ [][NextReplayFailure]_vars

\* The buffer a call left is the buffer it was given with the first k of
\* the pages written over it in order, and with nothing of page k + 1: when
\* that page is refused for the length of its payload the buffer reaches
\* to the end of the page, with zeros where no earlier page wrote.
PartialReplay(h, pages, k) ==
    /\ k < Len(pages)
    /\ LET p == pages[k + 1]
           base_len == LenAfter(h.before, pages, k)
       IN /\ Len(h.after) =
                 IF h.result.err.check = "data size mismatch" /\ PageEnd(p) > base_len
                 THEN PageEnd(p) ELSE base_len
          /\ \A i \in 0 .. (Len(h.after) - 1) :
                h.after[i + 1] = ExpectedOctet(h.before, pages, k, i)

\* The two logs of a call in the order of the replay: ascending sequence
\* number, argument order for equal numbers.
ReplayOrder(logs) ==
    IF logs[1].sequence <= logs[2].sequence THEN logs ELSE << logs[2], logs[1] >>

\* The pages of a log can all be written over buffer I.
RECURSIVE Writable(_, _, _)
Writable(I, pages, k) ==
    \/ k > Len(pages)
    \/ /\ ~EndRejected(pages[k])
       /\ PageEnd(pages[k]) - Len(I) <= MAX_PAGE_EXTENSION
       /\ Len(pages[k].data) = pages[k].size
       /\ Writable(IF PageEnd(pages[k]) > Len(I)
                   THEN I \o Zeros(PageEnd(pages[k]) - Len(I)) ELSE I,
                   pages, k + 1)

\* C26: when apply_to_hive returns an error at dirty page k, the buffer
\* holds pages 0..k-1 applied in order and nothing of page k's payload,
\* zero-extended to the end of page k when the payload length is refused;
\* when merge_transaction_logs fails in the second log of the replay, the
\* pages of the first log remain applied, followed by the pages of the
\* second log before the refused one.
C26_NoRollback ==
    \A n \in 1 .. Len(history) :
        LET h == history[n] IN
        ~h.result.ok =>
            /\ h.name = "apply_to_hive" =>
                  PartialReplay(h, log.dirty_pages, h.result.err.page_idx)
            /\ (h.name = "merge_transaction_logs" /\ Len(LogsGiven(h)) = 2) =>
                  LET logs == ReplayOrder(LogsGiven(h)) IN
                  IF Writable(h.before, logs[1].dirty_pages, 1)
                  THEN PartialReplay(h, logs[1].dirty_pages \o logs[2].dirty_pages,
                           Len(logs[1].dirty_pages) + h.result.err.page_idx)
                  ELSE PartialReplay(h, logs[1].dirty_pages, h.result.err.page_idx)

\* merge_transaction_logs was refused in the second log after the first
\* log changed the buffer, and then apply_to_hive was refused at its
\* second page for the length of the payload, after its first page had
\* extended the buffer and with the buffer extended once more.
C26_Witness ==
    /\ Len(history) = 2
    /\ history[1].name = "merge_transaction_logs"
    /\ ~history[1].result.ok
    /\ Len(LogsGiven(history[1])) = 2
    /\ Writable(history[1].before,
                ReplayOrder(LogsGiven(history[1]))[1].dirty_pages, 1)
    /\ history[1].after # history[1].before
    /\ history[2].name = "apply_to_hive"
    /\ ~history[2].result.ok
    /\ history[2].result.err.check = "data size mismatch"
    /\ history[2].result.err.page_idx = 1
    /\ Len(history[2].after) > Len(history[2].before) + log.dirty_pages[1].size

\* C29: open_with_logs writes the checksum anew exactly when at least one
\* dirty page was applied.  With no page applied the call returns what
\* open returns for the file, ChecksumMismatch for a stored checksum that
\* is wrong, and publishes the octets of the file; with a page applied it
\* never returns ChecksumMismatch and publishes the replayed image with its
\* checksum computed, whatever checksum the file had.
C29_ChecksumRewrittenIffApplied ==
    \A n \in 1 .. Len(history) :
        LET h == history[n] IN
        (h.name = "open_with_logs" /\ h.files[h.args.hive_path].some) =>
            \A replay \in {ReplayOf(h)}, base \in {h.files[h.args.hive_path].val} :
                replay.result.ok =>
                    IF replay.result.val = 0
                    THEN /\ (SignatureAndVersionValid(base) /\ ~ChecksumIsXor(base))
                              => FailsWith(h.result, "ChecksumMismatch")
                         /\ h.result.ok = open(h.files, h.args.hive_path).ok
                         /\ ~h.result.ok => h.result = open(h.files, h.args.hive_path)
                         /\ h.result.ok => hives[h.result.val].data = base
                    ELSE /\ ~FailsWith(h.result, "ChecksumMismatch")
                         /\ SignatureAndVersionValid(replay.hive_data) =>
                              /\ h.result.ok
                              /\ ChecksumIsXor(hives[h.result.val].data)
                              /\ SameOutsideChecksum(hives[h.result.val].data,
                                                     replay.hive_data)

\* A hive file with a wrong stored checksum was opened without a log and
\* rejected with ChecksumMismatch, and opened with a log that applies a
\* page and accepted.
C29_Witness ==
    \E m, n \in 1 .. Len(history) :
        /\ history[m].name = "open_with_logs"
        /\ history[n].name = "open_with_logs"
        /\ ~ChecksumIsXor(files["SYSTEM"].val)
        /\ ReplayOf(history[m]).result = Ok(0)
        /\ FailsWith(history[m].result, "ChecksumMismatch")
        /\ ReplayOf(history[n]).result.ok
        /\ ReplayOf(history[n]).result.val > 0
        /\ history[n].result.ok

\* C27: in every state each entry of the key cache of each navigator is
\* the key node that parsing the cell at the entry's offset of the
\* navigator's own image yields; a get_key call that fails leaves every
\* cache as it was, a get_key call that succeeds returns the node parsed
\* from the image of the navigator it was called on, and a navigator
\* published by open_with_logs or apply_transaction_log has an empty cache.
C27_CacheOfOwnImage ==
    /\ \A i \in DOMAIN hives :
         \A o \in DOMAIN hives[i].key_cache :
            parse_key_node(hives[i].data, o) = Ok(hives[i].key_cache[o])
    /\ Len(history) > 0 =>
         /\ (LastCall.name = "get_key" /\ ~LastCall.result.ok) =>
               hives = LastCall.hives
         /\ (LastCall.name = "get_key" /\ LastCall.result.ok) =>
               Ok(LastCall.result.val.key_node)
                 = parse_key_node(hives[LastCall.args.hive].data,
                                  LastCall.args.offset)
         /\ (LastCall.name \in {"open_with_logs", "apply_transaction_log"}
             /\ LastCall.result.ok) =>
               hives[LastCall.result.val].key_cache = EmptyCache

\* A navigator has the root key in its cache, and apply_transaction_log
\* on it published a navigator in whose image the root key parses to
\* another node than the cached one.
C27_Witness ==
    /\ Len(history) = 3
    /\ history[2].name = "get_key"
    /\ history[2].result.ok
    /\ LastCall.name = "apply_transaction_log"
    /\ LastCall.result.ok
    /\ RootCellOffset \in DOMAIN hives[LastCall.args.hive].key_cache
    /\ parse_key_node(hives[LastCall.result.val].data, RootCellOffset)
         # Ok(hives[LastCall.args.hive].key_cache[RootCellOffset])

====
